---- MODULE Spec2Model ----
(***************************************************************************)
(* Model of the Hormozi AI document pipeline.                              *)
(*                                                                         *)
(*   scripts/data_processing.py    BookProcessor.create_chunks             *)
(*   backend/app/services/rag_service.py                                   *)
(*                                 RAGService.search_knowledge_base        *)
(*                                                                         *)
(* Strings are modelled as sequences of atoms.  A text handled by          *)
(* create_chunks is a sequence whose elements are either SP (one space     *)
(* character) or k > 0, standing for the whole text of sentences[k]; the   *)
(* code only ever concatenates whole sentences and single spaces, and a    *)
(* sentence returned by sent_tokenize carries no leading or trailing       *)
(* whitespace and at least one word token.  Titles and ids are sequences   *)
(* of one-character strings.                                               *)
(***************************************************************************)
EXTENDS Integers, Sequences, FiniteSets, TLC

VARIABLES
    \* ---- BookProcessor.create_chunks: arguments, locals, return value
    c_pc,                \* "idle" | "loop" | "done"
    sentences,           \* sent_tokenize(text): sequence of sentence records
    chunk_size,          \* self.chunk_size
    book_title,
    chapter,
    pos,                 \* position of the for loop in sentences (1-based)
    current_chunk,
    current_word_count,
    chunk_index,
    chunks,
    \* ---- RAGService.search_knowledge_base
    s_pc,                \* "idle" | "available" | "query" | "done" | "raised"
    collection,          \* self.collection: "None" or "collection"
    query,
    n_results,
    min_similarity,
    results,             \* what collection.query returned
    processed_results,   \* the value returned to the caller
    store_calls,         \* calls issued to the store by the current request,
                         \* in order, each with its outcome
    \* ---- RAGService.generate_response
    g_pc,                \* "idle" | "gateway" | "done"
    g_query,
    context_results,     \* the caller's list of retrieval results
    conversation_history,\* the caller's history: given or None, and its turns
    messages,            \* the message list built for the generator
    gateway_calls,       \* message lists sent to the generation gateway
    generated,           \* the returned pair (text, sources)
    \* ---- EmbeddingGenerator.generate_embeddings_batch
    e_pc,                \* "idle" | "loop" | "done"
    embedding_model,     \* self.embedding_model
    model_name,          \* self.model_name
    texts,
    batch_size,
    batch_start,         \* the loop variable i: offset of the batch in texts
    all_embeddings,
    embed_calls,         \* the batches sent to the embedding gateway, each
                         \* with its outcome
    \* ---- the chat endpoint (backend/app/main.py)
    chat_pc,             \* "idle" | "search" | "generate" | "done"
    chat_message,        \* message.message
    conversation_id,     \* message.conversation_id (empty for None)
    chat_response,       \* the HTTP response
    \* ---- the UI handler query_hormozi_ai (app.py)
    ui_pc,               \* "idle" | "posted" | "done"
    question,
    api_key,
    os_environ,          \* os.environ["OPENAI_API_KEY"] of the UI process
    ui_result,           \* the returned pair (answer, sources_text)
    \* ---- two requests in flight at once, from the UI to the backend
    inflight,            \* per request: position, inputs, locals, response
    \* ---- ChromaDBManager.add_embeddings (scripts/create_embeddings.py)
    w_pc,                \* "idle" | "loop" | "done" | "raised"
    w_chunks,            \* the argument chunks
    w_embeddings,        \* the argument embeddings
    w_ids,               \* the local ids
    w_documents,         \* the local documents
    w_metadatas,         \* the local metadatas
    w_start,             \* the loop variable i
    stored,              \* the records of self.collection, in insertion order
    add_calls,           \* the batches passed to self.collection.add by this call
    \* ---- the store on disk and the RAGService instance of the backend process
    chroma_path_exists,  \* self.chroma_path.exists()
    collection_exists,   \* the collection is in the store
    missing_when_created, \* the path or the collection was missing when the instance was created
    instance,            \* the number of the RAGService instance (of the backend process)
    \* ---- HormoziPipeline.run_complete_pipeline (scripts/run_pipeline.py)
    p_pc,                \* the position in run_complete_pipeline
    book_files,
    p_chunks,            \* the local chunks
    embedding_generator, \* self.embedding_generator: "None" | "generator"
    chroma_manager,      \* self.chroma_manager: "None" | "manager"
    pipeline_state,
    gateway_sends,       \* the texts sent to the embedding gateway, in order
    counted_vectors,     \* the local embeddings of create_embeddings
    p_embeddings,        \* the local embeddings of populate_vector_db
    written,             \* what add_embeddings has written to the store
    query_outcomes,      \* validate_pipeline: the outcome of each test query
    p_result,            \* "None" | "True" | "False" | "raised"
    \* ---- BookProcessor.extract_chapters (scripts/data_processing.py)
    x_pc,                \* "idle" | "called" | "done"
    x_text,              \* the argument text
    x_chapters,          \* the returned list of (chapter_name, chapter_text)
    \* ---- BookProcessor.process_book (scripts/data_processing.py)
    b_pc,                \* "idle" | "pages" | "chapters" | "chunking" | "done"
    text_pages,
    full_text,
    b_chapters,          \* the local chapters
    b_pos,               \* the position of the loop over chapters
    all_chunks

chunk_vars == <<c_pc, sentences, chunk_size, book_title, chapter, pos,
                current_chunk, current_word_count, chunk_index, chunks>>
search_vars == <<s_pc, collection, query, n_results, min_similarity, results,
                 processed_results, store_calls>>
answer_vars == <<g_pc, g_query, context_results, conversation_history, messages,
                 gateway_calls, generated>>
\* Everything but the state of create_chunks and of search_knowledge_base.
embed_vars == <<e_pc, embedding_model, model_name, texts, batch_size, batch_start, all_embeddings,
               embed_calls>>
chat_vars == <<chat_pc, chat_message, conversation_id, chat_response>>
ui_vars == <<ui_pc, question, api_key, os_environ, ui_result>>
conc_vars == <<inflight>>
write_vars == <<w_pc, w_chunks, w_embeddings, w_ids, w_documents, w_metadatas, w_start,
               stored, add_calls>>
\* The components below the concurrent requests: the store write, the service
\* construction, the pipeline, process_book and extract_chapters.
service_vars == <<chroma_path_exists, collection_exists, missing_when_created, instance>>
pipe_vars == <<p_pc, book_files, p_chunks, embedding_generator, chroma_manager, pipeline_state,
              gateway_sends, counted_vectors, p_embeddings, written, query_outcomes, p_result>>
chapters_vars == <<x_pc, x_text, x_chapters>>
book_vars == <<b_pc, text_pages, full_text, b_chapters, b_pos, all_chunks>>
later_vars == <<write_vars, service_vars, pipe_vars, chapters_vars, book_vars>>
other_vars == <<answer_vars, embed_vars, chat_vars, ui_vars, conc_vars, later_vars>>
vars == <<chunk_vars, search_vars, other_vars>>

\* ------------------------------------------------------------------ bounds
MaxSentences == 4
MaxWords == 3
MaxChunkSize == 4

\* ------------------------------------------------------------- strings
SP == 0

\* A sentence of w word tokens: w one-letter words joined by single spaces.
Sentence(w) == [words |-> w, chars |-> 2 * w - 1]
SentenceSet == {Sentence(w) : w \in 1..MaxWords}

RECURSIVE SeqsUpTo(_, _)
SeqsUpTo(S, n) ==
    IF n = 0 THEN {<<>>}
    ELSE LET shorter == SeqsUpTo(S, n - 1)
         IN  shorter \cup {Append(s, x) : s \in {t \in shorter : Len(t) = n - 1}, x \in S}

\* len(word_tokenize(sentence))
WordTokenizeLen(sents, k) == sents[k].words

RECURSIVE SumWords(_, _)
\* sum(len(word_tokenize(s)) for s in atoms)
SumWords(sents, atoms) ==
    IF atoms = <<>> THEN 0
    ELSE WordTokenizeLen(sents, Head(atoms)) + SumWords(sents, Tail(atoms))

RECURSIVE StrLen(_, _)
\* len(text)
StrLen(sents, t) ==
    IF t = <<>> THEN 0
    ELSE (IF Head(t) = SP THEN 1 ELSE sents[Head(t)].chars) + StrLen(sents, Tail(t))

RECURSIVE LStrip(_)
LStrip(t) == IF t # <<>> /\ Head(t) = SP THEN LStrip(Tail(t)) ELSE t

RECURSIVE RStrip(_)
RStrip(t) ==
    IF t # <<>> /\ t[Len(t)] = SP THEN RStrip(SubSeq(t, 1, Len(t) - 1)) ELSE t

\* str.strip()
Strip(t) == RStrip(LStrip(t))

RECURSIVE Join(_)
\* " ".join(atoms)
Join(atoms) ==
    IF atoms = <<>> THEN <<>>
    ELSE IF Len(atoms) = 1 THEN atoms
    ELSE <<Head(atoms), SP>> \o Join(Tail(atoms))

\* sentences[a:b] as the sequence of their atoms (Python slice, 0-based, b exclusive)
Slice(a, b) == [k \in 1..(IF b > a THEN b - a ELSE 0) |-> a + k]

Max(a, b) == IF a >= b THEN a ELSE b
Min(a, b) == IF a <= b THEN a ELSE b

\* ---------------------------------------------------------------- ids
BookTitles == {<<"B", "k">>}
ChapterTitles == {<<"A", " ", "b">>, <<"a", "_", "b">>}

LowerChar(c) ==
    CASE c = "A" -> "a" [] c = "B" -> "b" [] c = "I" -> "i"
      [] c = "Chapter" -> "chapter" [] c = "Full" -> "full" [] c = "Text" -> "text"
      [] OTHER -> c
\* str.lower()
Lower(s) == [k \in 1..Len(s) |-> LowerChar(s[k])]
\* str.replace(' ', '_')
ReplaceSpace(s) == [k \in 1..Len(s) |-> IF s[k] = " " THEN "_" ELSE s[k]]

Digits == <<"0", "1", "2", "3", "4", "5", "6", "7", "8", "9">>
RECURSIVE Decimal(_)
\* str(n) for n >= 0
Decimal(n) == IF n < 10 THEN <<Digits[n + 1]>> ELSE Decimal(n \div 10) \o <<Digits[(n % 10) + 1]>>

\* f"{book_title.lower().replace(' ', '_')}_{chapter.lower().replace(' ', '_')}_{chunk_index}"
ChunkId(book, chap, idx) ==
    ReplaceSpace(Lower(book)) \o <<"_">> \o ReplaceSpace(Lower(chap)) \o <<"_">> \o Decimal(idx)

\* ------------------------------------------------- create_chunks
PageNumber == 1

\* TextChunk(...) as built at both places of create_chunks
TextChunk(sents, book, chap, cur, wc, idx) ==
    [id |-> ChunkId(book, chap, idx),
     content |-> Strip(cur),
     book_title |-> book,
     chapter |-> chap,
     page_number |-> PageNumber,
     word_count |-> wc,
     char_count |-> StrLen(sents, cur),
     chunk_index |-> idx]

\* Variants of the guard below: ">=" for ">", and the emptiness test dropped.
ShouldCloseAtLimit(wc, sentence_words, cur, size) ==
    wc + sentence_words >= size /\ cur # <<>>

ShouldCloseEvenIfEmpty(wc, sentence_words, cur, size) ==
    wc + sentence_words > size

\* if current_word_count + sentence_words > self.chunk_size and current_chunk:
ShouldClose(wc, sentence_words, cur, size) ==
    wc + sentence_words > size /\ cur # <<>>

\* overlap_sentences = sentences[max(0, len(sentences) - 3):len(sentences)]
\* (k is the position of the loop, which the slice does not read)
OverlapSentences(sents, k) ==
    Slice(Max(0, Len(sents) - 3), Len(sents))

\* Variant of the increment below: the index is not advanced.
SameChunkIndex(idx) == idx

\* chunk_index += 1
NextChunkIndex(idx) == idx + 1

\* Variant of the test below: the final chunk is emitted unconditionally.
HasContentAlways(cur) == TRUE

\* Variant of the test below: the final chunk is never emitted.
HasContentNever(cur) == FALSE

\* if current_chunk.strip():
HasContent(cur) == Strip(cur) # <<>>

InitChunk ==
    /\ c_pc = "idle"
    /\ sentences = <<>>
    /\ chunk_size = 1
    /\ book_title = <<>>
    /\ chapter = <<>>
    /\ pos = 1
    /\ current_chunk = <<>>
    /\ current_word_count = 0
    /\ chunk_index = 0
    /\ chunks = <<>>

\* A call of create_chunks: the arguments, and the locals before the loop.
CallCreateChunks ==
    /\ c_pc = "idle"
    /\ \E sents \in SeqsUpTo(SentenceSet, MaxSentences), size \in 1..MaxChunkSize,
          book \in BookTitles, chap \in ChapterTitles :
          /\ sentences' = sents
          /\ chunk_size' = size
          /\ book_title' = book
          /\ chapter' = chap
    /\ chunks' = <<>>
    /\ current_chunk' = <<>>
    /\ current_word_count' = 0
    /\ chunk_index' = 0
    /\ pos' = 1
    /\ c_pc' = "loop"
    /\ UNCHANGED <<search_vars, other_vars>>

\* One iteration of the loop, the branch that closes the current chunk.
CloseChunk ==
    /\ c_pc = "loop"
    /\ pos <= Len(sentences)
    /\ LET sentence_words == WordTokenizeLen(sentences, pos)
           overlap_sentences == OverlapSentences(sentences, pos)
       IN  /\ ShouldClose(current_word_count, sentence_words, current_chunk, chunk_size)
           /\ chunks' = Append(chunks, TextChunk(sentences, book_title, chapter,
                                   current_chunk, current_word_count, chunk_index))
           /\ current_chunk' = Join(overlap_sentences) \o <<SP, pos>>
           /\ current_word_count' = SumWords(sentences, overlap_sentences) + sentence_words
           /\ chunk_index' = NextChunkIndex(chunk_index)
    /\ pos' = pos + 1
    /\ UNCHANGED <<c_pc, sentences, chunk_size, book_title, chapter>>
    /\ UNCHANGED <<search_vars, other_vars>>

\* One iteration of the loop, the branch that extends the current chunk.
AppendSentence ==
    /\ c_pc = "loop"
    /\ pos <= Len(sentences)
    /\ LET sentence_words == WordTokenizeLen(sentences, pos)
       IN  /\ ~ShouldClose(current_word_count, sentence_words, current_chunk, chunk_size)
           /\ current_chunk' = current_chunk \o <<SP, pos>>
           /\ current_word_count' = current_word_count + sentence_words
    /\ pos' = pos + 1
    /\ UNCHANGED <<c_pc, sentences, chunk_size, book_title, chapter, chunk_index, chunks>>
    /\ UNCHANGED <<search_vars, other_vars>>

\* After the loop: the final chunk, and the return.
FinalChunk ==
    /\ c_pc = "loop"
    /\ pos > Len(sentences)
    /\ chunks' = IF HasContent(current_chunk)
                 THEN Append(chunks, TextChunk(sentences, book_title, chapter,
                                 current_chunk, current_word_count, chunk_index))
                 ELSE chunks
    /\ c_pc' = "done"
    /\ UNCHANGED <<sentences, chunk_size, book_title, chapter, pos, current_chunk,
                   current_word_count, chunk_index>>
    /\ UNCHANGED <<search_vars, other_vars>>

\* return chunks: the caller takes the list, the locals are gone.
ReturnChunks ==
    /\ c_pc = "done"
    /\ c_pc' = "idle"
    /\ sentences' = <<>>
    /\ chunk_size' = 1
    /\ book_title' = <<>>
    /\ chapter' = <<>>
    /\ pos' = 1
    /\ current_chunk' = <<>>
    /\ current_word_count' = 0
    /\ chunk_index' = 0
    /\ chunks' = <<>>
    /\ UNCHANGED <<search_vars, other_vars>>

NextChunk ==
    \/ CallCreateChunks
    \/ CloseChunk
    \/ AppendSentence
    \/ FinalChunk
    \/ ReturnChunks

\* ------------------------------------------- properties of create_chunks
\* The sentences of a text, in the order they occur in it.
SentenceAtoms(t) == SelectSeq(t, LAMBDA a : a # SP)
\* t is a non-empty sequence of whole sentences joined by single spaces.
IsSpaceJoined(t) == SentenceAtoms(t) # <<>> /\ t = Join(SentenceAtoms(t))
\* s is a run k, k+1, ..., of input sentences.
IsRun(s) == \A k \in 1..(Len(s) - 1) : s[k + 1] = s[k] + 1
AllSentences == Slice(0, Len(sentences))
Range(s) == {s[k] : k \in 1..Len(s)}

\* C1: the chunks emitted so far carry chunk_index 0, 1, ..., n-1 in list
\* order, and the index the next chunk of this call will get is n, so the
\* numbering of every call starts at 0 and has no gap and no repeat.
C1_ChunkIndexSequential ==
    /\ \A k \in 1..Len(chunks) : chunks[k].chunk_index = k - 1
    /\ c_pc = "loop" => chunk_index = Len(chunks)

C1_Witness == c_pc = "done" /\ Len(chunks) >= 3

\* C2: when a chunk is closed while sentence pos is processed, the next chunk
\* is seeded with the up to 3 sentences consumed immediately before it
\* (sentences max(0, i-3) .. i-1 for i = pos - 1, 0-based), then sentence pos.
C2_OverlapIsLastConsumed ==
    [][CloseChunk =>
         current_chunk' = Join(Slice(Max(0, (pos - 1) - 3), pos - 1)) \o <<SP, pos>>]_vars

\* The number of sentences create_chunks puts in front of a chunk as overlap.
OverlapLen(k) == IF k = 1 THEN 0 ELSE Len(OverlapSentences(sentences, 1))
DropFirst(s, n) == SubSeq(s, n + 1, Len(s))

\* C3: every chunk is a space-joined sequence of whole sentences, and for
\* adjacent chunks the sentences of the earlier one followed by those of the
\* later one without its overlap prefix are a run of input sentences in order.
C3_AdjacentChunksInOrder ==
    /\ \A k \in 1..Len(chunks) : IsSpaceJoined(chunks[k].content)
    /\ \A k \in 1..(Len(chunks) - 1) :
          IsRun(SentenceAtoms(chunks[k].content)
                \o DropFirst(SentenceAtoms(chunks[k + 1].content), OverlapLen(k + 1)))

\* C4: char_count of every emitted chunk is the length of its trimmed content.
C4_CharCountIsContentLength ==
    \A k \in 1..Len(chunks) :
        chunks[k].char_count = StrLen(sentences, chunks[k].content)

\* C5: no emitted chunk is empty (word_count >= 1, content not blank), and a
\* section without sentences yields no chunk.
C5_NoEmptyChunk ==
    /\ \A k \in 1..Len(chunks) :
          /\ chunks[k].word_count >= 1
          /\ SentenceAtoms(chunks[k].content) # <<>>
    /\ (c_pc = "done" /\ sentences = <<>>) => chunks = <<>>

C5_Witness == c_pc = "done" /\ Len(chunks) >= 2 /\ chunks[1].word_count = 1

\* C6: a non-empty section whose words fit in chunk_size yields exactly one
\* chunk, of index 0, holding every sentence once, in input order.
C6_SmallSectionOneChunk ==
    (c_pc = "done" /\ sentences # <<>> /\ SumWords(sentences, AllSentences) <= chunk_size)
        => /\ Len(chunks) = 1
           /\ chunks[1].chunk_index = 0
           /\ chunks[1].content = Join(AllSentences)

C6_Witness ==
    /\ c_pc = "done"
    /\ Len(sentences) >= 2
    /\ SumWords(sentences, AllSentences) = chunk_size
    /\ Len(chunks) = 1

\* C7: a sentence longer than chunk_size is carried whole by an emitted chunk,
\* and a section made of that sentence alone yields exactly one chunk, whose
\* word_count exceeds chunk_size.
C7_OversizedSentenceKeptWhole ==
    c_pc = "done" =>
        /\ \A k \in 1..Len(sentences) :
              WordTokenizeLen(sentences, k) > chunk_size
                  => \E c \in 1..Len(chunks) : k \in Range(chunks[c].content)
        /\ (Len(sentences) = 1 /\ WordTokenizeLen(sentences, 1) > chunk_size)
              => /\ Len(chunks) = 1
                 /\ chunks[1].content = <<1>>
                 /\ chunks[1].word_count = WordTokenizeLen(sentences, 1)
                 /\ chunks[1].word_count > chunk_size

C7_Witness ==
    /\ c_pc = "done"
    /\ Len(sentences) = 1
    /\ WordTokenizeLen(sentences, 1) > chunk_size
    /\ Len(chunks) = 1

\* C22: every emitted chunk has word_count <= chunk_size, except a chunk made
\* of one sentence that is itself longer than chunk_size; so a chunk started
\* from the overlap seed never exceeds chunk_size.
C22_ChunksBounded ==
    \A k \in 1..Len(chunks) :
        \/ chunks[k].word_count <= chunk_size
        \/ /\ Len(SentenceAtoms(chunks[k].content)) = 1
           /\ WordTokenizeLen(sentences, SentenceAtoms(chunks[k].content)[1]) > chunk_size

\* The sentences the chunks emitted so far, and the accumulator, hold.
Emitted == UNION {Range(SentenceAtoms(chunks[k].content)) : k \in 1..Len(chunks)}
Accumulated == Range(SentenceAtoms(current_chunk))
\* An iteration of the for loop.
LoopStep == CloseChunk \/ AppendSentence

\* C23: create_chunks drops nothing. While the loop runs, every sentence it
\* has consumed is whole in an emitted chunk or in the accumulator; at the
\* return every sentence of the section is whole in an emitted chunk; and
\* every iteration consumes exactly the next sentence.
SentencesKept ==
    /\ c_pc = "loop" => (1..(pos - 1)) \subseteq (Emitted \cup Accumulated)
    /\ c_pc = "done" => (1..Len(sentences)) \subseteq Emitted
C23_NothingDropped ==
    []SentencesKept /\ [][LoopStep => (pos' = pos + 1 /\ pos \in Accumulated')]_vars
C23_Witness ==
    /\ c_pc = "done"
    /\ Len(sentences) = 4
    /\ Len(chunks) = 3
    /\ 4 \in Range(SentenceAtoms(chunks[3].content))
    /\ 1 \in Range(SentenceAtoms(chunks[1].content))

\* ------------------------------------------------- search_knowledge_base
\* Distances, similarities and min_similarity are fixed-point numbers in
\* hundredths: 60 stands for 0.6.
MaxResults == 3
MaxCount == 2

\* A query is a sequence of one-character strings.
Queries == {<<"p", "s">>, <<>>}
SimilarityFloors == {60, 70}
DistanceValues == {10, 30, 50, 90}

\* A metadata dict: the keys it holds, and their values (a key that is not
\* held has a filler value that is never read).
EmptyDict == [keys |-> {}, book_title |-> "", chapter |-> "", page_number |-> 0]
MetadataSet ==
    {[keys |-> {"book_title", "chapter", "page_number"},
      book_title |-> "Bk", chapter |-> "Ch", page_number |-> 1],
     [keys |-> {"book_title"}, book_title |-> "Bk", chapter |-> "", page_number |-> 0]}

\* Variant of the lookup below: the default is not used.
GetWithoutDefault(d, key, default) == d[key]

\* dict.get(key, default)
Get(d, key, default) == IF key \in d.keys THEN d[key] ELSE default

\* A text handled by the answer composer is the first len characters of a
\* document (base), followed by dots "." characters: the code only slices
\* document texts from the left and appends "...".
Text(base, len) == [base |-> base, len |-> len, dots |-> 0]
\* len(t)
TextLen(t) == t.len + t.dots
\* t[:n]
Prefix(t, n) ==
    [base |-> t.base, len |-> Min(t.len, n), dots |-> Min(t.dots, Max(0, n - t.len))]
\* t + "..."
WithEllipsis(t) == [t EXCEPT !.dots = @ + 3]

\* The k-th document of a response: a text of 201 characters at an odd
\* position, of 200 at an even one.
StoreDocument(k) == Text(k, 200 + (k % 2))

\* What collection.query can return for one query text: parallel lists, one
\* entry per candidate, nearest first; a list that was not included is None.
Candidates(n) ==
    UNION {[1..len -> [metadata : MetadataSet, distance : DistanceValues]] : len \in 0..n}

StoreResponse(cands, has_documents, has_metadatas, has_distances) ==
    [documents |-> IF has_documents THEN <<[k \in 1..Len(cands) |-> StoreDocument(k)]>> ELSE <<>>,
     metadatas |-> IF has_metadatas THEN <<[k \in 1..Len(cands) |-> cands[k].metadata]>> ELSE <<>>,
     distances |-> IF has_distances THEN <<[k \in 1..Len(cands) |-> cands[k].distance]>> ELSE <<>>]

\* A call issued to the store: op is "count" or "query"; ok is FALSE when the
\* call raised; value is what count() answered (0 for a query).
StoreCall(op, ok, value) == [op |-> op, ok |-> ok, value |-> value]

NoResponse == [documents |-> <<>>, metadatas |-> <<>>, distances |-> <<>>]

\* similarity = 1 - distance
Similarity(distance) == 100 - distance

\* Variant of the test below: a candidate exactly at the floor is dropped.
PassesFloorStrict(similarity, floor) == similarity > floor

\* if similarity >= min_similarity:
PassesFloor(similarity, floor) == similarity >= floor

RECURSIVE ProcessZip(_, _, _, _, _)
\* for doc, metadata, distance in zip(documents, metadatas, distances): ...
ProcessZip(documents, metadatas, distances, floor, k) ==
    IF k > Min(Len(documents), Min(Len(metadatas), Len(distances))) THEN <<>>
    ELSE LET similarity == Similarity(distances[k])
             rest == ProcessZip(documents, metadatas, distances, floor, k + 1)
         IN  IF PassesFloor(similarity, floor)
             THEN <<[content |-> documents[k],
                     metadata |-> metadatas[k],
                     similarity |-> similarity,
                     book |-> Get(metadatas[k], "book_title", "Unknown"),
                     chapter |-> Get(metadatas[k], "chapter", "Unknown"),
                     page_number |-> Get(metadatas[k], "page_number", 0)]>> \o rest
             ELSE rest

\* The body of the try block after collection.query has returned.
ProcessResults(res, floor) ==
    IF res.documents = <<>> \/ res.documents[1] = <<>> THEN <<>>
    ELSE LET documents == res.documents[1]
             metadatas == IF res.metadatas # <<>> THEN res.metadatas[1]
                          ELSE [k \in 1..Len(documents) |-> EmptyDict]
             distances == IF res.distances # <<>> THEN res.distances[1]
                          ELSE [k \in 1..Len(documents) |-> 0]
         IN  ProcessZip(documents, metadatas, distances, floor, 1)

\* Variant of the test below: an empty collection counts as available.
IsAvailableIgnoringCount(coll, count) == coll # "None"

\* return self.collection is not None and self.collection.count() > 0
IsAvailable(coll, count) == coll # "None" /\ count > 0

InitSearch ==
    /\ s_pc = "idle"
    /\ collection \in {"None", "collection"}
    /\ query = <<>>
    /\ n_results = 1
    /\ min_similarity = 0
    /\ results = NoResponse
    /\ processed_results = <<>>
    /\ store_calls = <<>>

\* A call of search_knowledge_base.
SearchCall ==
    /\ s_pc = "idle"
    /\ \E q \in Queries, n \in 1..MaxResults, m \in SimilarityFloors :
          /\ query' = q
          /\ n_results' = n
          /\ min_similarity' = m
    /\ results' = NoResponse
    /\ processed_results' = <<>>
    /\ store_calls' = <<>>
    /\ s_pc' = "available"
    /\ UNCHANGED <<collection, chunk_vars, other_vars>>

\* is_knowledge_base_available with collection None: count() is not evaluated.
AvailableNoCollection ==
    /\ s_pc = "available"
    /\ collection = "None"
    /\ processed_results' = <<>>
    /\ s_pc' = "done"
    /\ UNCHANGED <<collection, query, n_results, min_similarity, results, store_calls, chunk_vars, other_vars>>

\* is_knowledge_base_available with a collection: count() answers.
AvailableCount ==
    /\ s_pc = "available"
    /\ collection # "None"
    /\ \E count \in 0..MaxCount :
          /\ store_calls' = Append(store_calls, StoreCall("count", TRUE, count))
          /\ IF IsAvailable(collection, count)
             THEN /\ s_pc' = "query"
                  /\ UNCHANGED processed_results
             ELSE /\ s_pc' = "done"
                  /\ processed_results' = <<>>
    /\ UNCHANGED <<collection, query, n_results, min_similarity, results, chunk_vars, other_vars>>

\* is_knowledge_base_available with a collection: count() raises, outside the
\* try block of search_knowledge_base.
AvailableCountRaises ==
    /\ s_pc = "available"
    /\ collection # "None"
    /\ store_calls' = Append(store_calls, StoreCall("count", FALSE, 0))
    /\ s_pc' = "raised"
    /\ UNCHANGED <<collection, query, n_results, min_similarity, results,
                   processed_results, chunk_vars,
                   other_vars>>

\* collection.query answers, and the results are processed and returned.
QueryStore ==
    /\ s_pc = "query"
    /\ store_calls' = Append(store_calls, StoreCall("query", TRUE, 0))
    /\ \E cands \in Candidates(Min(n_results, MaxResults)), has_documents, has_metadatas, has_distances \in BOOLEAN :
          /\ results' = StoreResponse(cands, has_documents, has_metadatas, has_distances)
          /\ processed_results' = ProcessResults(results', min_similarity)
    /\ s_pc' = "done"
    /\ UNCHANGED <<collection, query, n_results, min_similarity, chunk_vars, other_vars>>

\* collection.query raises: except Exception returns [].
QueryStoreRaises ==
    /\ s_pc = "query"
    /\ store_calls' = Append(store_calls, StoreCall("query", FALSE, 0))
    /\ processed_results' = <<>>
    /\ s_pc' = "done"
    /\ UNCHANGED <<collection, query, n_results, min_similarity, results, chunk_vars, other_vars>>

\* The caller has the list (or the exception); the locals are gone.
SearchReturn ==
    /\ s_pc \in {"done", "raised"}
    /\ s_pc' = "idle"
    /\ query' = <<>>
    /\ n_results' = 1
    /\ min_similarity' = 0
    /\ results' = NoResponse
    /\ processed_results' = <<>>
    /\ store_calls' = <<>>
    /\ UNCHANGED <<collection, chunk_vars, other_vars>>

NextSearch ==
    \/ SearchCall
    \/ AvailableNoCollection
    \/ AvailableCount
    \/ AvailableCountRaises
    \/ QueryStore
    \/ QueryStoreRaises
    \/ SearchReturn

\* ------------------------------------- properties of search_knowledge_base
RECURSIVE Qualifying(_, _, _)
\* The positions k of the response, in the store's order, with 1 - distance >= m.
Qualifying(distances, m, k) ==
    IF k > Len(distances) THEN <<>>
    ELSE (IF 100 - distances[k] >= m THEN <<k>> ELSE <<>>) \o Qualifying(distances, m, k + 1)

\* The store answered the query with all three lists.
QueryAnswered ==
    /\ s_pc = "done"
    /\ Len(store_calls) = 2
    /\ store_calls[2] = StoreCall("query", TRUE, 0)
    /\ results.documents # <<>> /\ results.metadatas # <<>> /\ results.distances # <<>>

\* C9: the list returned for a store response (documents, metadatas,
\* distances) holds exactly the candidates with 1 - distance >= min_similarity,
\* in the store's order, each with its own document, metadata and similarity.
C9_ExactlyQualifyingInOrder ==
    QueryAnswered =>
        LET q == Qualifying(results.distances[1], min_similarity, 1)
        IN  /\ Len(processed_results) = Len(q)
            /\ \A j \in 1..Len(q) :
                  /\ processed_results[j].content = results.documents[1][q[j]]
                  /\ processed_results[j].metadata = results.metadatas[1][q[j]]
                  /\ processed_results[j].similarity = 100 - results.distances[1][q[j]]

\* The scenario of the specification: distances [0.1, 0.5, 0.9] and
\* min_similarity 0.6 give one result, of similarity 0.9.
C9_Witness ==
    /\ QueryAnswered
    /\ results.distances[1] = <<10, 50, 90>>
    /\ min_similarity = 60
    /\ Len(processed_results) = 1
    /\ processed_results[1].similarity = 90

\* The availability check of the current request found no knowledge base:
\* collection is None, or count() answered 0.
FoundUnavailable ==
    /\ s_pc \in {"query", "done", "raised"}
    /\ \/ collection = "None"
       \/ (store_calls # <<>> /\ store_calls[1] = StoreCall("count", TRUE, 0))

\* C10: with collection None, or with count() answering 0, the call returns
\* an empty list, does not raise, and issues no query to the store.
C10_UnavailableReturnsEmpty ==
    FoundUnavailable =>
        /\ s_pc = "done"
        /\ processed_results = <<>>
        /\ \A k \in 1..Len(store_calls) : store_calls[k].op # "query"

C10_Witness ==
    /\ s_pc = "done"
    /\ collection # "None"
    /\ store_calls = <<StoreCall("count", TRUE, 0)>>
    /\ processed_results = <<>>

\* C11: no failure of a store call reaches the caller of
\* search_knowledge_base: the call does not end by raising, and after a failed
\* store call (count() or query) it returns an empty list.
C11_StoreFailureNeverRaises ==
    /\ s_pc # "raised"
    /\ (s_pc = "done" /\ \E k \in 1..Len(store_calls) : ~store_calls[k].ok)
          => processed_results = <<>>

\* The candidates of the response that pass the floor, with the metadata the
\* loop pairs them with ({} for all when the store gave no metadatas).
EffectiveMetadatas(res) ==
    IF res.metadatas # <<>> THEN res.metadatas[1]
    ELSE [k \in 1..Len(res.documents[1]) |-> EmptyDict]
EffectiveDistances(res) ==
    IF res.distances # <<>> THEN res.distances[1]
    ELSE [k \in 1..Len(res.documents[1]) |-> 0]

\* The store answered the query with documents.
DocumentsAnswered ==
    /\ s_pc = "done"
    /\ Len(store_calls) = 2
    /\ store_calls[2] = StoreCall("query", TRUE, 0)
    /\ results.documents # <<>>

\* v is the string sentinel "Unknown" (and no number).
IsUnknownSentinel(v) == v \notin Int /\ v = "Unknown"

\* C13 as claimed: every candidate that passes the floor is returned, and each
\* of book_title, chapter and page_number its metadata lacks is "Unknown".
C13_MissingFieldsAreUnknown ==
    DocumentsAnswered =>
        LET q == Qualifying(EffectiveDistances(results), min_similarity, 1)
            md == EffectiveMetadatas(results)
        IN  /\ Len(processed_results) = Len(q)
            /\ \A j \in 1..Len(q) :
                  /\ "book_title" \notin md[q[j]].keys => processed_results[j].book = "Unknown"
                  /\ "chapter" \notin md[q[j]].keys => processed_results[j].chapter = "Unknown"
                  /\ "page_number" \notin md[q[j]].keys
                        => IsUnknownSentinel(processed_results[j].page_number)

\* C13 as amended: every candidate that passes the floor is returned; a missing
\* book_title or chapter is "Unknown", a missing page_number is 0, and a field
\* the metadata holds is passed on.
C13_MissingFieldsDefaulted ==
    DocumentsAnswered =>
        LET q == Qualifying(EffectiveDistances(results), min_similarity, 1)
            md == EffectiveMetadatas(results)
        IN  /\ Len(processed_results) = Len(q)
            /\ \A j \in 1..Len(q) :
                  /\ processed_results[j].content = results.documents[1][q[j]]
                  /\ processed_results[j].book =
                        IF "book_title" \in md[q[j]].keys THEN md[q[j]].book_title ELSE "Unknown"
                  /\ processed_results[j].chapter =
                        IF "chapter" \in md[q[j]].keys THEN md[q[j]].chapter ELSE "Unknown"
                  /\ processed_results[j].page_number =
                        IF "page_number" \in md[q[j]].keys THEN md[q[j]].page_number ELSE 0

\* Two results, the first from metadata without chapter and page_number.
C13_Witness ==
    /\ DocumentsAnswered
    /\ results.metadatas # <<>>
    /\ Len(processed_results) = 2
    /\ processed_results[1].metadata.keys = {"book_title"}
    /\ processed_results[1].chapter = "Unknown"
    /\ processed_results[1].page_number = 0
    /\ processed_results[2].chapter = "Ch"

\* ------------------------------------------------- generate_response
MaxContext == 2
MaxHistory == 7

SnippetLimit == 200
ContextLimit == 500
HistoryWindow == 6

ContentSet == {Text("d", 2), Text("d", 200), Text("d", 201), Text("d", 501)}
ContextSimilarities == {90}

\* One entry of the list search_knowledge_base returns.
SearchResult(doc, metadata, similarity) ==
    [content |-> doc,
     metadata |-> metadata,
     similarity |-> similarity,
     book |-> Get(metadata, "book_title", "Unknown"),
     chapter |-> Get(metadata, "chapter", "Unknown"),
     page_number |-> Get(metadata, "page_number", 0)]

ContextResultSet ==
    {SearchResult(c, md, sim) : c \in ContentSet, md \in MetadataSet, sim \in ContextSimilarities}

\* The history the caller passes: None, or a list of turns (turn k of a
\* conversation; the code reads none of its fields).
Turn(k) == [role |-> IF k % 2 = 1 THEN "user" ELSE "assistant", content |-> k]
History(given, n) == [given |-> given, turns |-> [k \in 1..n |-> Turn(k)]]
Histories == {History(FALSE, 0)} \cup {History(TRUE, n) : n \in 0..MaxHistory}

\* round(x, ndigits) of a number held in hundredths.
Round(x, ndigits) ==
    IF ndigits >= 2 THEN x
    ELSE LET step == IF ndigits = 1 THEN 10 ELSE 100
         IN  ((x + step \div 2) \div step) * step

\* Variant of the preview below: the content is not truncated.
ContextPreviewWhole(content) == content

\* content = result['content'][:500]
ContextPreview(content) == Prefix(content, ContextLimit)

\* _prepare_context: the fixed sentence, or one labelled part per result.
PrepareContext(res) ==
    IF res = <<>> THEN [fixed |-> TRUE, parts |-> <<>>]
    ELSE [fixed |-> FALSE,
          parts |-> [i \in 1..Len(res) |->
                       [source |-> i,
                        book |-> Get(res[i].metadata, "book_title", "Unknown Book"),
                        chapter |-> Get(res[i].metadata, "chapter", "Unknown Chapter"),
                        content |-> ContextPreview(res[i].content)]]]

\* Variant of the snippet below: a content of exactly 200 characters is cut.
SnippetCutAtLimit(content) ==
    IF TextLen(content) >= SnippetLimit
    THEN WithEllipsis(Prefix(content, SnippetLimit)) ELSE content

\* result['content'][:200] + "..." if len(result['content']) > 200 else result['content']
Snippet(content) ==
    IF TextLen(content) > SnippetLimit
    THEN WithEllipsis(Prefix(content, SnippetLimit)) ELSE content

\* _prepare_sources
PrepareSources(res) ==
    [i \in 1..Len(res) |->
        [book |-> Get(res[i].metadata, "book_title", "Unknown"),
         chapter |-> Get(res[i].metadata, "chapter", "Unknown"),
         page |-> Get(res[i].metadata, "page_number", 0),
         text_snippet |-> Snippet(res[i].content),
         similarity |-> Round(res[i].similarity, 3)]]

\* Variant of the fallback below: the query is left out of the text.
FallbackWithoutQuery(q) == [template |-> "fallback", query |-> <<>>]

\* _generate_fallback_response: the fixed template around the query.
FallbackResponse(q) == [template |-> "fallback", query |-> q]

\* _build_system_prompt and _build_user_prompt
SystemMessage == [role |-> "system", content |-> "system_prompt"]
UserMessage(q, context) ==
    [role |-> "user", content |-> [template |-> "user_prompt", query |-> q, context |-> context]]

\* Variant of the window below: the first turns instead of the last.
FirstTurns(turns) == SubSeq(turns, 1, Min(HistoryWindow, Len(turns)))

\* conversation_history[-6:]
LastTurns(turns) == SubSeq(turns, Max(1, Len(turns) - HistoryWindow + 1), Len(turns))

\* The message list of generate_response (lines 143-149).
BuildMessages(q, res, history) ==
    <<SystemMessage>>
    \o (IF history.given /\ history.turns # <<>> THEN LastTurns(history.turns) ELSE <<>>)
    \o <<UserMessage(q, PrepareContext(res))>>

NoAnswer == [text |-> [template |-> "", query |-> <<>>], sources |-> <<>>]

InitAnswer ==
    /\ g_pc = "idle"
    /\ g_query = <<>>
    /\ context_results = <<>>
    /\ conversation_history = History(FALSE, 0)
    /\ messages = <<>>
    /\ gateway_calls = <<>>
    /\ generated = NoAnswer

\* A call of generate_response, up to the message list.
GenerateCall ==
    /\ g_pc = "idle"
    /\ \E q \in Queries, res \in SeqsUpTo(ContextResultSet, MaxContext), h \in Histories :
          /\ g_query' = q
          /\ context_results' = res
          /\ conversation_history' = h
          /\ messages' = BuildMessages(q, res, h)
    /\ gateway_calls' = <<>>
    /\ generated' = NoAnswer
    /\ g_pc' = "gateway"
    /\ UNCHANGED <<chunk_vars, later_vars, search_vars, embed_vars, conc_vars, chat_vars, ui_vars>>

\* chat.completions.create answers: the text and the citations are returned.
GatewayAnswers ==
    /\ g_pc = "gateway"
    /\ gateway_calls' = Append(gateway_calls, [messages |-> messages, ok |-> TRUE])
    /\ generated' = [text |-> [template |-> "generated", query |-> <<>>],
                     sources |-> PrepareSources(context_results)]
    /\ g_pc' = "done"
    /\ UNCHANGED <<g_query, context_results, conversation_history, messages>>
    /\ UNCHANGED <<chunk_vars, later_vars, search_vars, embed_vars, conc_vars, chat_vars, ui_vars>>

\* chat.completions.create raises: except Exception returns the fallback.
GatewayRaises ==
    /\ g_pc = "gateway"
    /\ gateway_calls' = Append(gateway_calls, [messages |-> messages, ok |-> FALSE])
    /\ generated' = [text |-> FallbackResponse(g_query), sources |-> <<>>]
    /\ g_pc' = "done"
    /\ UNCHANGED <<g_query, context_results, conversation_history, messages>>
    /\ UNCHANGED <<chunk_vars, later_vars, search_vars, embed_vars, conc_vars, chat_vars, ui_vars>>

\* The caller has the pair; the locals are gone.
GenerateReturn ==
    /\ g_pc = "done"
    /\ g_pc' = "idle"
    /\ g_query' = <<>>
    /\ context_results' = <<>>
    /\ conversation_history' = History(FALSE, 0)
    /\ messages' = <<>>
    /\ gateway_calls' = <<>>
    /\ generated' = NoAnswer
    /\ UNCHANGED <<chunk_vars, later_vars, search_vars, embed_vars, conc_vars, chat_vars, ui_vars>>

NextAnswer ==
    \/ GenerateCall
    \/ GatewayAnswers
    \/ GatewayRaises
    \/ GenerateReturn

\* ------------------------------------------ generate_embeddings_batch
MaxTexts == 4
MaxBatchSize == 3

ZeroDimension == 1536

\* The configurations EmbeddingGenerator accepts (embedding_model, model_name).
EmbeddingConfigs ==
    {<<"openai", "text-embedding-ada-002">>,
     <<"openai", "text-embedding-3-large">>,
     <<"sentence_transformer", "all-MiniLM-L6-v2">>}

\* The length of the vectors a model produces.
ModelDimension(name) ==
    CASE name = "text-embedding-ada-002" -> 1536
      [] name = "text-embedding-3-large" -> 3072
      [] name = "all-MiniLM-L6-v2" -> 384

\* The lists of texts: text ids in ascending or in descending order.
TextLists ==
    {[k \in 1..n |-> k] : n \in 0..MaxTexts} \cup {[k \in 1..n |-> n + 1 - k] : n \in 0..MaxTexts}

\* a[lo:hi] for 0 <= lo
ListSlice(a, lo, hi) == SubSeq(a, lo + 1, Min(hi, Len(a)))

\* The vector of a text, and a vector of zeros (which belongs to no text).
Embedding(t, dim) == [of |-> t, zero |-> FALSE, dim |-> dim]
ZeroVector(dim) == [of |-> 0, zero |-> TRUE, dim |-> dim]

\* The gateway's answer: one vector per input, in the order of the inputs.
Embeddings(batch, dim) == [k \in 1..Len(batch) |-> Embedding(batch[k], dim)]

\* Variant of the fallback below: one vector of zeros for the whole batch.
ZeroEmbeddingsOnce(batch, dim) == <<ZeroVector(dim)>>

\* [[0.0] * dim for _ in texts]
ZeroEmbeddings(batch, dim) == [k \in 1..Len(batch) |-> ZeroVector(dim)]

\* The dimension of the zero vectors: 1536 in _generate_openai_embeddings,
\* st_model.get_sentence_embedding_dimension() in _generate_st_embeddings.
FallbackDimension(model, name) ==
    IF model = "openai" THEN ZeroDimension ELSE ModelDimension(name)

InitEmbed ==
    /\ e_pc = "idle"
    /\ embedding_model = "openai"
    /\ model_name = "text-embedding-ada-002"
    /\ texts = <<>>
    /\ batch_size = 1
    /\ batch_start = 0
    /\ all_embeddings = <<>>
    /\ embed_calls = <<>>

\* A call of generate_embeddings_batch on a constructed EmbeddingGenerator.
EmbedCall ==
    /\ e_pc = "idle"
    /\ \E cfg \in EmbeddingConfigs, t \in TextLists, b \in 1..MaxBatchSize :
          /\ embedding_model' = cfg[1]
          /\ model_name' = cfg[2]
          /\ texts' = t
          /\ batch_size' = b
    /\ batch_start' = 0
    /\ all_embeddings' = <<>>
    /\ embed_calls' = <<>>
    /\ e_pc' = "loop"
    /\ UNCHANGED <<chunk_vars, later_vars, search_vars, answer_vars, chat_vars, ui_vars, conc_vars>>

\* One turn of the loop whose embedding call answers.
BatchSucceeds ==
    /\ e_pc = "loop"
    /\ batch_start < Len(texts)
    /\ LET batch == ListSlice(texts, batch_start, batch_start + batch_size)
       IN  /\ embed_calls' = Append(embed_calls, [batch |-> batch, ok |-> TRUE])
           /\ all_embeddings' = all_embeddings \o Embeddings(batch, ModelDimension(model_name))
    /\ batch_start' = batch_start + batch_size
    /\ UNCHANGED <<e_pc, embedding_model, model_name, texts, batch_size>>
    /\ UNCHANGED <<chunk_vars, later_vars, search_vars, answer_vars, chat_vars, ui_vars, conc_vars>>

\* One turn of the loop whose embedding call raises.
BatchFails ==
    /\ e_pc = "loop"
    /\ batch_start < Len(texts)
    /\ LET batch == ListSlice(texts, batch_start, batch_start + batch_size)
       IN  /\ embed_calls' = Append(embed_calls, [batch |-> batch, ok |-> FALSE])
           /\ all_embeddings' =
                 all_embeddings \o ZeroEmbeddings(batch, FallbackDimension(embedding_model, model_name))
    /\ batch_start' = batch_start + batch_size
    /\ UNCHANGED <<e_pc, embedding_model, model_name, texts, batch_size>>
    /\ UNCHANGED <<chunk_vars, later_vars, search_vars, answer_vars, chat_vars, ui_vars, conc_vars>>

\* range(0, len(texts), batch_size) is exhausted: return all_embeddings.
EmbedLoopEnds ==
    /\ e_pc = "loop"
    /\ batch_start >= Len(texts)
    /\ e_pc' = "done"
    /\ UNCHANGED <<embedding_model, model_name, texts, batch_size, batch_start, all_embeddings, embed_calls>>
    /\ UNCHANGED <<chunk_vars, later_vars, search_vars, answer_vars, chat_vars, ui_vars, conc_vars>>

\* The caller has the list; the locals are gone.
EmbedReturn ==
    /\ e_pc = "done"
    /\ e_pc' = "idle"
    /\ embedding_model' = "openai"
    /\ model_name' = "text-embedding-ada-002"
    /\ texts' = <<>>
    /\ batch_size' = 1
    /\ batch_start' = 0
    /\ all_embeddings' = <<>>
    /\ embed_calls' = <<>>
    /\ UNCHANGED <<chunk_vars, later_vars, search_vars, answer_vars, chat_vars, ui_vars, conc_vars>>

NextEmbed ==
    \/ EmbedCall
    \/ BatchSucceeds
    \/ BatchFails
    \/ EmbedLoopEnds
    \/ EmbedReturn

\* ------------------------------------------------------ chat endpoint
ChatTopK == 5
ChatMinSimilarity == 60
SetupSnippetLength == 144

\* The messages a client posts (one of them blank), the conversation ids
\* (empty: None), and what the user types into the two boxes of the UI.
ChatMessages == {<<"p", "s">>, <<" ", " ">>}
ConversationIds == {<<>>}
UiQuestions == {<<"p", "s">>, <<" ">>, <<>>}
ApiKeys == {<<"k">>, <<" ">>, <<>>}

RECURSIVE LStripStr(_)
LStripStr(t) == IF t # <<>> /\ Head(t) = " " THEN LStripStr(Tail(t)) ELSE t
RECURSIVE RStripStr(_)
RStripStr(t) ==
    IF t # <<>> /\ t[Len(t)] = " " THEN RStripStr(SubSeq(t, 1, Len(t) - 1)) ELSE t
\* str.strip() of a sequence of characters
StripStr(t) == RStripStr(LStripStr(t))

\* A fixed text of the program (no query inside).
FixedText(name) == [template |-> name, query |-> <<>>]

\* message.conversation_id or <default>
ConversationIdOr(id, kind, message) ==
    IF id # <<>> THEN [kind |-> "given", of |-> id] ELSE [kind |-> kind, of |-> message]

\* The response of chat when the knowledge base is not available (lines 88-97).
SetupRequiredResponse(id) ==
    [status |-> 200,
     response |-> FixedText("knowledge base is not currently available"),
     sources |-> <<[book |-> "System",
                    chapter |-> "Setup Required",
                    page |-> 0,
                    text_snippet |-> Text("setup", SetupSnippetLength)]>>,
     conversation_id |-> ConversationIdOr(id, "setup_required", <<>>)]

\* raise HTTPException(status_code=500, ...)
ErrorResponse ==
    [status |-> 500,
     response |-> FixedText("Error processing request"),
     sources |-> <<>>,
     conversation_id |-> [kind |-> "none", of |-> <<>>]]

NoChatResponse ==
    [status |-> 0,
     response |-> FixedText(""),
     sources |-> <<>>,
     conversation_id |-> [kind |-> "none", of |-> <<>>]]

NoUiResult == [answer |-> FixedText(""), sources_text |-> <<>>]

\* The sources text the UI handler builds from the sources of a response.
FormatSources(sources) ==
    [k \in 1..Len(sources) |->
        [number |-> k,
         book |-> sources[k].book,
         chapter |-> sources[k].chapter,
         snippet |-> WithEllipsis(Prefix(sources[k].text_snippet, SnippetLimit))]]

\* What query_hormozi_ai returns for an HTTP response.
UiResultOf(response) ==
    IF response.status = 200
    THEN [answer |-> response.response, sources_text |-> FormatSources(response.sources)]
    ELSE [answer |-> FixedText("Error: status"), sources_text |-> <<>>]

InitChat ==
    /\ chat_pc = "idle"
    /\ chat_message = <<>>
    /\ conversation_id = <<>>
    /\ chat_response = NoChatResponse

InitUi ==
    /\ ui_pc = "idle"
    /\ question = <<>>
    /\ api_key = <<>>
    /\ os_environ = <<>>
    /\ ui_result = NoUiResult

\* The locals of search_knowledge_base and of generate_response after the
\* call has returned to chat; the logs of the external calls stay.
SearchLocalsGone ==
    /\ s_pc' = "idle"
    /\ query' = <<>>
    /\ n_results' = 1
    /\ min_similarity' = 0
    /\ results' = NoResponse
    /\ processed_results' = <<>>
AnswerLocalsGone ==
    /\ g_pc' = "idle"
    /\ g_query' = <<>>
    /\ context_results' = <<>>
    /\ conversation_history' = History(FALSE, 0)
    /\ messages' = <<>>
    /\ generated' = NoAnswer
ChatLocalsGone ==
    /\ chat_pc' = "idle"
    /\ chat_message' = <<>>
    /\ conversation_id' = <<>>
    /\ chat_response' = NoChatResponse

\* chat up to the availability check, given the posted message.
ChatStarts(message, id) ==
    /\ chat_pc = "idle"
    /\ chat_message' = message
    /\ conversation_id' = id
    /\ chat_response' = NoChatResponse
    /\ chat_pc' = "available"
    /\ UNCHANGED <<chunk_vars, later_vars, search_vars, answer_vars, embed_vars, conc_vars>>

\* A client posts a message to /chat.
ChatCall ==
    /\ ui_pc = "idle"
    /\ \E message \in ChatMessages, id \in ConversationIds : ChatStarts(message, id)
    /\ UNCHANGED ui_vars

\* The availability check of chat with collection None.
ChatNoCollection ==
    /\ chat_pc = "available"
    /\ collection = "None"
    /\ chat_response' = SetupRequiredResponse(conversation_id)
    /\ chat_pc' = "done"
    /\ UNCHANGED <<chat_message, conversation_id>>
    /\ UNCHANGED <<chunk_vars, later_vars, search_vars, answer_vars, embed_vars, conc_vars, ui_vars>>

\* The availability check of chat: count() answers; when the knowledge base
\* is available, search_knowledge_base is called with the message.
ChatCount ==
    /\ chat_pc = "available"
    /\ collection # "None"
    /\ \E count \in 0..MaxCount :
          /\ store_calls' = Append(store_calls, StoreCall("count", TRUE, count))
          /\ IF IsAvailable(collection, count)
             THEN /\ chat_pc' = "search"
                  /\ s_pc' = "available"
                  /\ query' = chat_message
                  /\ n_results' = ChatTopK
                  /\ min_similarity' = ChatMinSimilarity
                  /\ UNCHANGED chat_response
             ELSE /\ chat_pc' = "done"
                  /\ chat_response' = SetupRequiredResponse(conversation_id)
                  /\ UNCHANGED <<s_pc, query, n_results, min_similarity>>
    /\ UNCHANGED <<collection, results, processed_results, chat_message, conversation_id>>
    /\ UNCHANGED <<chunk_vars, later_vars, answer_vars, embed_vars, conc_vars, ui_vars>>

\* The availability check of chat: count() raises; except Exception answers 500.
ChatCountRaises ==
    /\ chat_pc = "available"
    /\ collection # "None"
    /\ store_calls' = Append(store_calls, StoreCall("count", FALSE, 0))
    /\ chat_response' = ErrorResponse
    /\ chat_pc' = "done"
    /\ UNCHANGED <<s_pc, collection, query, n_results, min_similarity, results, processed_results>>
    /\ UNCHANGED <<chat_message, conversation_id>>
    /\ UNCHANGED <<chunk_vars, later_vars, answer_vars, embed_vars, conc_vars, ui_vars>>

\* search_knowledge_base has returned: generate_response is called with the
\* message and the results, without a history.
ChatGenerates ==
    /\ chat_pc = "search"
    /\ s_pc = "done"
    /\ g_query' = chat_message
    /\ context_results' = processed_results
    /\ conversation_history' = History(FALSE, 0)
    /\ messages' = BuildMessages(chat_message, processed_results, History(FALSE, 0))
    /\ generated' = NoAnswer
    /\ g_pc' = "gateway"
    /\ SearchLocalsGone
    /\ chat_pc' = "generate"
    /\ UNCHANGED <<collection, store_calls, gateway_calls>>
    /\ UNCHANGED <<chat_message, conversation_id, chat_response>>
    /\ UNCHANGED <<chunk_vars, later_vars, embed_vars, conc_vars, ui_vars>>

\* search_knowledge_base has raised: except Exception answers 500.
ChatSearchRaised ==
    /\ chat_pc = "search"
    /\ s_pc = "raised"
    /\ SearchLocalsGone
    /\ chat_response' = ErrorResponse
    /\ chat_pc' = "done"
    /\ UNCHANGED <<collection, store_calls, chat_message, conversation_id>>
    /\ UNCHANGED <<chunk_vars, later_vars, answer_vars, embed_vars, conc_vars, ui_vars>>

\* generate_response has returned: the ChatResponse is sent.
ChatResponds ==
    /\ chat_pc = "generate"
    /\ g_pc = "done"
    /\ chat_response' = [status |-> 200,
                         response |-> generated.text,
                         sources |-> generated.sources,
                         conversation_id |-> ConversationIdOr(conversation_id, "chat_hash", chat_message)]
    /\ AnswerLocalsGone
    /\ chat_pc' = "done"
    /\ UNCHANGED <<gateway_calls, chat_message, conversation_id>>
    /\ UNCHANGED <<chunk_vars, later_vars, search_vars, embed_vars, conc_vars, ui_vars>>

\* The client has the response; the request is over.
ChatReturn ==
    /\ chat_pc = "done"
    /\ ui_pc = "idle"
    /\ ChatLocalsGone
    /\ store_calls' = <<>>
    /\ gateway_calls' = <<>>
    /\ UNCHANGED <<s_pc, collection, query, n_results, min_similarity, results, processed_results>>
    /\ UNCHANGED <<g_pc, g_query, context_results, conversation_history, messages, generated>>
    /\ UNCHANGED <<chunk_vars, later_vars, embed_vars, conc_vars, ui_vars>>

\* query_hormozi_ai with a blank question or a blank key: a message, no call.
UiRejects ==
    /\ ui_pc = "idle"
    /\ chat_pc = "idle"
    /\ \E q \in UiQuestions, key \in ApiKeys :
          /\ StripStr(q) = <<>> \/ StripStr(key) = <<>>
          /\ question' = q
          /\ api_key' = key
          /\ ui_result' = [answer |-> IF StripStr(q) = <<>>
                                      THEN FixedText("Please ask a question")
                                      ELSE FixedText("Please provide your OpenAI API key"),
                           sources_text |-> <<>>]
    /\ ui_pc' = "done"
    /\ UNCHANGED os_environ
    /\ UNCHANGED <<chunk_vars, later_vars, search_vars, answer_vars, embed_vars, conc_vars, chat_vars>>

\* query_hormozi_ai with a question and a key: the key is written to the
\* environment and the question is posted to /chat.
UiPosts ==
    /\ ui_pc = "idle"
    /\ \E q \in UiQuestions, key \in ApiKeys :
          /\ StripStr(q) # <<>> /\ StripStr(key) # <<>>
          /\ question' = q
          /\ api_key' = key
          /\ os_environ' = key
          /\ ChatStarts(q, <<>>)
    /\ ui_result' = NoUiResult
    /\ ui_pc' = "posted"

\* requests.post raises (no connection, timeout): a connection error text.
UiPostFails ==
    /\ ui_pc = "idle"
    /\ chat_pc = "idle"
    /\ \E q \in UiQuestions, key \in ApiKeys :
          /\ StripStr(q) # <<>> /\ StripStr(key) # <<>>
          /\ question' = q
          /\ api_key' = key
          /\ os_environ' = key
    /\ ui_result' = [answer |-> FixedText("Connection error"), sources_text |-> <<>>]
    /\ ui_pc' = "done"
    /\ UNCHANGED <<chunk_vars, later_vars, search_vars, answer_vars, embed_vars, conc_vars, chat_vars>>

\* The response of /chat arrives: the answer and the sources text are built.
UiReceives ==
    /\ ui_pc = "posted"
    /\ chat_pc = "done"
    /\ ui_result' = UiResultOf(chat_response)
    /\ ui_pc' = "done"
    /\ ChatLocalsGone
    /\ UNCHANGED <<question, api_key, os_environ>>
    /\ UNCHANGED <<chunk_vars, later_vars, search_vars, answer_vars, embed_vars, conc_vars>>

\* The UI has the pair; the locals are gone, the environment stays.
UiReturn ==
    /\ ui_pc = "done"
    /\ ui_pc' = "idle"
    /\ question' = <<>>
    /\ api_key' = <<>>
    /\ ui_result' = NoUiResult
    /\ store_calls' = <<>>
    /\ gateway_calls' = <<>>
    /\ UNCHANGED os_environ
    /\ UNCHANGED <<s_pc, collection, query, n_results, min_similarity, results, processed_results>>
    /\ UNCHANGED <<g_pc, g_query, context_results, conversation_history, messages, generated>>
    /\ UNCHANGED <<chunk_vars, later_vars, embed_vars, conc_vars, chat_vars>>

NextChat ==
    \/ ChatCall
    \/ ChatNoCollection
    \/ ChatCount
    \/ ChatCountRaises
    \/ AvailableCount
    \/ AvailableCountRaises
    \/ QueryStore
    \/ QueryStoreRaises
    \/ ChatGenerates
    \/ ChatSearchRaised
    \/ GatewayAnswers
    \/ GatewayRaises
    \/ ChatResponds
    \/ ChatReturn
    \/ UiRejects
    \/ UiPosts
    \/ UiPostFails
    \/ UiReceives
    \/ UiReturn

\* ------------------------------------------------ concurrent requests
\* Two users of the UI at once: each call of query_hormozi_ai runs in a thread
\* of the UI process and posts to the backend, whose handlers share the
\* module-level rag_service. The store does not change.
Requests == {1, 2}
ConcQueries == {<<"p", "s">>, <<"l">>}
ConcKeys == {<<"k", "1">>, <<"k", "2">>}

\* The key of the client RAGService built at construction.
ClientKey == <<"b">>

\* What the unchanging store answers to a query.
KnowledgeBase(q) ==
    LET full == [keys |-> {"book_title", "chapter", "page_number"},
                 book_title |-> "Bk", chapter |-> "Ch", page_number |-> 1]
        partial == [keys |-> {"book_title"}, book_title |-> "Bk", chapter |-> "", page_number |-> 0]
    IN  IF q = <<"p", "s">>
        THEN StoreResponse(<<[metadata |-> full, distance |-> 10],
                             [metadata |-> partial, distance |-> 50]>>, TRUE, TRUE, TRUE)
        ELSE StoreResponse(<<[metadata |-> partial, distance |-> 30],
                             [metadata |-> full, distance |-> 30]>>, TRUE, TRUE, TRUE)

\* Variant of the key below: the key is read from the environment at the call.
GatewayKeyFromEnviron(client, environ) == environ

\* The key a generation call is made with: self.openai_client holds the key it
\* was built with, whatever the environment holds at the time of the call.
GatewayKey(client, environ) == client

NoRequest ==
    [pc |-> "idle", question |-> <<>>, api_key |-> <<>>, context_results |-> <<>>,
     messages |-> <<>>, credentials |-> <<>>, gateway_ok |-> FALSE,
     response |-> NoChatResponse, result |-> NoUiResult]

InitConc == inflight = [r \in Requests |-> NoRequest]

\* query_hormozi_ai of request r, with a question that no request in flight
\* has: the key is written to the environment and the question is posted.
ConcUiPosts(r) ==
    /\ inflight[r].pc = "idle"
    /\ \E q \in ConcQueries, key \in ConcKeys :
          /\ \A o \in Requests \ {r} : inflight[o].pc # "idle" => inflight[o].question # q
          /\ os_environ' = key
          /\ inflight' = [inflight EXCEPT ![r] = [NoRequest EXCEPT !.pc = "posted",
                                                                   !.question = q,
                                                                   !.api_key = key]]
    /\ UNCHANGED <<ui_pc, question, api_key, ui_result>>
    /\ UNCHANGED <<chunk_vars, later_vars, search_vars, answer_vars, embed_vars, chat_vars>>

\* chat of request r: the availability check.
ConcAvailable(r) ==
    /\ inflight[r].pc = "posted"
    /\ LET req == inflight[r]
       IN  inflight' = [inflight EXCEPT ![r] =
                          IF IsAvailable(collection, MaxCount)
                          THEN [req EXCEPT !.pc = "search"]
                          ELSE [req EXCEPT !.pc = "responded",
                                           !.response = SetupRequiredResponse(<<>>)]]
    /\ UNCHANGED <<chunk_vars, later_vars, search_vars, answer_vars, embed_vars, chat_vars, ui_vars>>

\* chat of request r: search_knowledge_base with the message of the request.
ConcSearches(r) ==
    /\ inflight[r].pc = "search"
    /\ LET req == inflight[r]
       IN  inflight' = [inflight EXCEPT ![r] =
                          [req EXCEPT !.pc = "generate",
                                      !.context_results =
                                          IF IsAvailable(collection, MaxCount)
                                          THEN ProcessResults(KnowledgeBase(req.question),
                                                              ChatMinSimilarity)
                                          ELSE <<>>]]
    /\ UNCHANGED <<chunk_vars, later_vars, search_vars, answer_vars, embed_vars, chat_vars, ui_vars>>

\* chat of request r: generate_response; the gateway answers or raises.
ConcGenerates(r) ==
    /\ inflight[r].pc = "generate"
    /\ \E ok \in BOOLEAN :
          LET req == inflight[r]
          IN  inflight' = [inflight EXCEPT ![r] =
                  [req EXCEPT
                      !.pc = "responded",
                      !.messages = BuildMessages(req.question, req.context_results,
                                                 History(FALSE, 0)),
                      !.credentials = GatewayKey(ClientKey, os_environ),
                      !.gateway_ok = ok,
                      !.response =
                          [status |-> 200,
                           response |-> IF ok THEN FixedText("generated")
                                        ELSE FallbackResponse(req.question),
                           sources |-> IF ok THEN PrepareSources(req.context_results) ELSE <<>>,
                           conversation_id |-> ConversationIdOr(<<>>, "chat_hash", req.question)]]]
    /\ UNCHANGED <<chunk_vars, later_vars, search_vars, answer_vars, embed_vars, chat_vars, ui_vars>>

\* query_hormozi_ai of request r: the response arrives.
ConcUiReceives(r) ==
    /\ inflight[r].pc = "responded"
    /\ LET req == inflight[r]
       IN  inflight' = [inflight EXCEPT ![r] =
                          [req EXCEPT !.pc = "done", !.result = UiResultOf(req.response)]]
    /\ UNCHANGED <<chunk_vars, later_vars, search_vars, answer_vars, embed_vars, chat_vars, ui_vars>>

\* The user of request r has the pair.
ConcReturn(r) ==
    /\ inflight[r].pc = "done"
    /\ inflight' = [inflight EXCEPT ![r] = NoRequest]
    /\ UNCHANGED <<chunk_vars, later_vars, search_vars, answer_vars, embed_vars, chat_vars, ui_vars>>

NextConc ==
    \E r \in Requests :
        \/ ConcUiPosts(r)
        \/ ConcAvailable(r)
        \/ ConcSearches(r)
        \/ ConcGenerates(r)
        \/ ConcUiReceives(r)
        \/ ConcReturn(r)

\* ------------------------------------- properties of generate_response
GatewayFailed ==
    g_pc = "done" /\ Len(gateway_calls) = 1 /\ ~gateway_calls[1].ok
GatewaySucceeded ==
    g_pc = "done" /\ Len(gateway_calls) = 1 /\ gateway_calls[1].ok

\* C12: when the call of the language-model gateway fails, generate_response
\* does not raise: it returns the fallback text, which holds the query
\* verbatim, with an empty list of citations, whatever the query and the
\* context results were.
C12_GatewayFailureGivesFallback ==
    /\ g_pc \in {"idle", "gateway", "done"}
    /\ GatewayFailed =>
          /\ generated.text.template = "fallback"
          /\ generated.text.query = g_query
          /\ generated.sources = <<>>
C12_Witness ==
    /\ GatewayFailed
    /\ g_query = <<"p", "s">>
    /\ Len(context_results) = 2
    /\ generated.text.query = <<"p", "s">>

\* C14: when the gateway answers, there is exactly one citation per context
\* result, in the order of the results, and its text_snippet is the content
\* itself when that has at most 200 characters, otherwise its first 200
\* characters followed by an ellipsis.
C14_OneCitationPerResult ==
    GatewaySucceeded =>
        /\ Len(generated.sources) = Len(context_results)
        /\ \A i \in 1..Len(context_results) :
              LET r == context_results[i]
                  c == generated.sources[i]
              IN  /\ c.book = r.book
                  /\ c.chapter = r.chapter
                  /\ c.page = r.page_number
                  /\ c.text_snippet.base = r.content.base
                  /\ IF r.content.len <= 200
                     THEN c.text_snippet = r.content
                     ELSE c.text_snippet.len = 200 /\ c.text_snippet.dots = 3
C14_Witness ==
    /\ GatewaySucceeded
    /\ Len(context_results) = 2
    /\ context_results[1].content.len = 200
    /\ context_results[2].content.len = 201
    /\ context_results[1].metadata # context_results[2].metadata
    /\ generated.sources[1].text_snippet.dots = 0
    /\ generated.sources[2].text_snippet.dots = 3

\* The context text passed to the gateway: the one inside the user prompt.
ContextText == messages[Len(messages)].content.context

\* C15: _prepare_context gives the fixed "no relevant context" sentence for an
\* empty result list; otherwise its entries are numbered 1..n in the order of
\* the results, and each holds at most the first 500 characters of its content.
C15_ContextNumberedAndTruncated ==
    g_pc \in {"gateway", "done"} =>
        IF context_results = <<>>
        THEN ContextText.fixed /\ ContextText.parts = <<>>
        ELSE /\ ~ContextText.fixed
             /\ Len(ContextText.parts) = Len(context_results)
             /\ \A i \in 1..Len(context_results) :
                   LET part == ContextText.parts[i]
                       r == context_results[i]
                   IN  /\ part.source = i
                       /\ part.content.base = r.content.base
                       /\ part.content.dots = 0
                       /\ part.content.len = (IF r.content.len <= 500 THEN r.content.len ELSE 500)
C15_Witness ==
    /\ g_pc = "gateway"
    /\ Len(context_results) = 2
    /\ context_results[1].content.len = 501
    /\ context_results[2].content.len = 201
    /\ ContextText.parts[1].content.len = 500
    /\ ContextText.parts[2].source = 2

\* C16: the messages sent to the gateway are the system prompt, then the last
\* min(6, len(history)) entries of the history, verbatim and in order, then
\* the user prompt; the call changes neither the caller's
\* conversation_history nor its context_results.
MessagesAreWindowed ==
    g_pc \in {"gateway", "done"} =>
        LET turns == conversation_history.turns
            n == IF Len(turns) < 6 THEN Len(turns) ELSE 6
        IN  /\ Len(messages) = n + 2
            /\ messages[1].role = "system"
            /\ \A k \in 1..n : messages[1 + k] = turns[Len(turns) - n + k]
            /\ messages[n + 2].role = "user"
            /\ messages[n + 2].content.query = g_query
            /\ \A k \in 1..Len(gateway_calls) : gateway_calls[k].messages = messages
InputsUntouched ==
    (g_pc # "idle" /\ g_pc' # "idle") => UNCHANGED <<conversation_history, context_results>>
C16_MessagesAndInputs == []MessagesAreWindowed /\ [][InputsUntouched]_vars
C16_Witness ==
    /\ GatewaySucceeded
    /\ Len(conversation_history.turns) = 7
    /\ Len(messages) = 8
    /\ messages[2] = Turn(2)
    /\ messages[7] = Turn(7)
    /\ Len(context_results) = 1

\* ------------------------------------------ properties of the chat endpoint
\* The availability check of the current chat request found no knowledge
\* base: collection is None, or count() answered 0.
ChatFoundUnavailable ==
    /\ chat_pc \in {"search", "generate", "done"}
    /\ \/ collection = "None"
       \/ (store_calls # <<>> /\ store_calls[1] = StoreCall("count", TRUE, 0))

\* C17: when the store is unavailable or count() is 0, chat returns the fixed
\* "knowledge base is not currently available" message with exactly one
\* citation, whose book is "System", and issues no store query and no
\* generation call.
C17_UnavailableGivesSetupMessage ==
    ChatFoundUnavailable =>
        /\ chat_pc = "done"
        /\ chat_response.status = 200
        /\ chat_response.response = FixedText("knowledge base is not currently available")
        /\ Len(chat_response.sources) = 1
        /\ chat_response.sources[1].book = "System"
        /\ \A k \in 1..Len(store_calls) : store_calls[k].op # "query"
        /\ gateway_calls = <<>>
C17_Witness ==
    /\ chat_pc = "done"
    /\ chat_message = <<"p", "s">>
    /\ collection # "None"
    /\ store_calls = <<StoreCall("count", TRUE, 0)>>
    /\ chat_response.sources[1].book = "System"

\* The query of the request in progress, on either entry point.
UiQuestionIsBlank == ui_pc # "idle" /\ StripStr(question) = <<>>
ChatMessageIsBlank == chat_pc # "idle" /\ StripStr(chat_message) = <<>>

\* C18: an empty or whitespace-only query is rejected with a plain text
\* message before any external call: no store count or query and no
\* generation call is issued for it, by the UI handler or by the chat endpoint.
C18_BlankQueryNoExternalCall ==
    /\ UiQuestionIsBlank => (chat_pc = "idle" /\ store_calls = <<>> /\ gateway_calls = <<>>)
    /\ ChatMessageIsBlank => (store_calls = <<>> /\ gateway_calls = <<>>)

\* -------------------------------------- properties of concurrent requests
\* What request r gets when it runs alone against the store.
AloneContext(r) ==
    IF IsAvailable(collection, MaxCount)
    THEN ProcessResults(KnowledgeBase(inflight[r].question), ChatMinSimilarity)
    ELSE <<>>
AloneSources(r) ==
    IF ~IsAvailable(collection, MaxCount) THEN SetupRequiredResponse(<<>>).sources
    ELSE IF inflight[r].gateway_ok THEN PrepareSources(AloneContext(r))
    ELSE <<>>
AloneMessages(r) ==
    IF ~IsAvailable(collection, MaxCount) THEN <<>>
    ELSE BuildMessages(inflight[r].question, AloneContext(r), History(FALSE, 0))

BatchOf(k) == (k - 1) \div batch_size + 1

\* C20: for any list of texts, any batch_size >= 1 and any pattern of failing
\* batches, generate_embeddings_batch never raises and returns exactly
\* len(texts) vectors, the k-th being the vector of the k-th text; every text
\* of a failed batch has a vector of zeros.
C20_VectorsAlignedWithTexts ==
    /\ e_pc \in {"idle", "loop", "done"}
    /\ e_pc = "done" =>
          /\ Len(all_embeddings) = Len(texts)
          /\ \A k \in 1..Len(texts) :
                /\ BatchOf(k) <= Len(embed_calls)
                /\ IF embed_calls[BatchOf(k)].ok
                   THEN ~all_embeddings[k].zero /\ all_embeddings[k].of = texts[k]
                   ELSE all_embeddings[k].zero
C20_Witness ==
    /\ e_pc = "done"
    /\ texts = <<4, 3, 2, 1>>
    /\ batch_size = 3
    /\ Len(embed_calls) = 2
    /\ ~embed_calls[1].ok
    /\ embed_calls[2].ok
    /\ Len(all_embeddings) = 4
    /\ all_embeddings[4].of = 1

\* C24: all vectors returned by one call have the same dimension, whatever
\* batches failed and whichever model name is configured.
C24_OneDimensionPerCall ==
    e_pc = "done" =>
        \A j, k \in 1..Len(all_embeddings) : all_embeddings[j].dim = all_embeddings[k].dim

\* ------------------------------------------------- add_embeddings
MaxWriteChunks == 201

\* batch_size = 100
AddBatchSize == 100

\* One chunk dictionary of the list process_books hands on (chunk.__dict__).
ChunkDict(k) ==
    [id |-> k,
     content |-> Text(k, 1 + (k % 3)),
     book_title |-> <<"B", "k">>,
     chapter |-> <<"F", "u", "l", "l", " ", "T", "e", "x", "t">>,
     page_number |-> PageNumber,
     word_count |-> 1 + (k % 3),
     char_count |-> 5 + (k % 3),
     chunk_index |-> k - 1,
     source_file |-> <<"B", "k", ".", "p", "d", "f">>]

ChunkDicts(n) == [k \in 1..n |-> ChunkDict(k)]

\* The lengths of the lists: none, one, around one batch and two batches, and the most.
WriteSizes ==
    {0, 1, AddBatchSize - 1, AddBatchSize, AddBatchSize + 1, 2 * AddBatchSize, MaxWriteChunks}

\* The embeddings of the chunks' contents: the model's vectors, or the vectors
\* of zeros generate_embeddings_batch puts in when the gateway failed.
WriteEmbeddings(cs) ==
    {[k \in 1..Len(cs) |-> Embedding(cs[k].id, ZeroDimension)],
     [k \in 1..Len(cs) |-> ZeroVector(ZeroDimension)]}

\* metadata = {'book_title': chunk['book_title'], ..., 'source_file': chunk['source_file']}
Metadata(chunk) ==
    [book_title |-> chunk.book_title,
     chapter |-> chunk.chapter,
     page_number |-> chunk.page_number,
     word_count |-> chunk.word_count,
     char_count |-> chunk.char_count,
     chunk_index |-> chunk.chunk_index,
     source_file |-> chunk.source_file]

\* end_idx = min(i + batch_size, len(chunks))
EndIdx(start, n) == Min(start + AddBatchSize, n)

\* Variant of the slice below: the embeddings are taken from the start of the list.
BatchEmbeddingsFromStart(embs, start, end) == ListSlice(embs, 0, end - start)

\* embeddings[i:end_idx]
BatchEmbeddings(embs, start, end) == ListSlice(embs, start, end)

\* The keyword arguments of one self.collection.add call, one record per position.
AddBatch(start, end) ==
    LET bi == ListSlice(w_ids, start, end)
        be == BatchEmbeddings(w_embeddings, start, end)
        bd == ListSlice(w_documents, start, end)
        bm == ListSlice(w_metadatas, start, end)
    IN  [ids |-> bi, embeddings |-> be, documents |-> bd, metadatas |-> bm]

\* The store refuses a call whose lists differ in length or whose ids repeat.
ValidBatch(batch) ==
    /\ Len(batch.embeddings) = Len(batch.ids)
    /\ Len(batch.documents) = Len(batch.ids)
    /\ Len(batch.metadatas) = Len(batch.ids)
    /\ Cardinality({batch.ids[k] : k \in 1..Len(batch.ids)}) = Len(batch.ids)

BatchRecords(batch) ==
    [k \in 1..Len(batch.ids) |->
        [id |-> batch.ids[k], embedding |-> batch.embeddings[k],
         document |-> batch.documents[k], metadata |-> batch.metadatas[k]]]

StoredIds(st) == {st[k].id : k \in 1..Len(st)}

\* Variant of the store's add below: a record is inserted whether or not its id
\* is in the collection.
CollectionAddAlways(st, batch) == st \o BatchRecords(batch)

\* Collection.add of the persistent store: a record whose id is already in the
\* collection is left as it is, the others are inserted.
CollectionAdd(st, batch) ==
    LET IsNew(r) == r.id \notin StoredIds(st)
    IN  st \o SelectSeq(BatchRecords(batch), IsNew)

InitWrite ==
    /\ w_pc = "idle"
    /\ w_chunks = <<>>
    /\ w_embeddings = <<>>
    /\ w_ids = <<>>
    /\ w_documents = <<>>
    /\ w_metadatas = <<>>
    /\ w_start = 0
    /\ stored = <<>>
    /\ add_calls = <<>>

write_frame == <<chunk_vars, search_vars, answer_vars, embed_vars, chat_vars, ui_vars, conc_vars,
                service_vars, pipe_vars, chapters_vars, book_vars>>

\* add_embeddings(chunks, embeddings) up to the loop: the three lists are built.
\* The first call of a run of the pipeline gets the chunks of the books; a later
\* call (the pipeline run again on the same books) gets the same chunks.
WriteCall ==
    /\ w_pc = "idle"
    /\ \E n \in WriteSizes :
        /\ stored # <<>> => n = Len(w_chunks)
        /\ w_chunks' = ChunkDicts(n)
    /\ w_embeddings' \in WriteEmbeddings(w_chunks')
    /\ w_ids' = [k \in 1..Len(w_chunks') |-> w_chunks'[k].id]
    /\ w_documents' = [k \in 1..Len(w_chunks') |-> w_chunks'[k].content]
    /\ w_metadatas' = [k \in 1..Len(w_chunks') |-> Metadata(w_chunks'[k])]
    /\ w_start' = 0
    /\ add_calls' = <<>>
    /\ w_pc' = "loop"
    /\ UNCHANGED <<stored, write_frame>>

\* One pass of "for i in range(0, len(chunks), batch_size)": the store takes the batch.
WriteBatch ==
    /\ w_pc = "loop"
    /\ w_start < Len(w_chunks)
    /\ LET batch == AddBatch(w_start, EndIdx(w_start, Len(w_chunks)))
       IN  /\ ValidBatch(batch)
           /\ stored' = CollectionAdd(stored, batch)
           /\ add_calls' = Append(add_calls, batch)
    /\ w_start' = w_start + AddBatchSize
    /\ UNCHANGED <<w_pc, w_chunks, w_embeddings, w_ids, w_documents, w_metadatas, write_frame>>

\* self.collection.add raises (the batch is refused, or the store fails): the
\* exception leaves add_embeddings, which has no handler.
WriteBatchRaises ==
    /\ w_pc = "loop"
    /\ w_start < Len(w_chunks)
    /\ add_calls' = Append(add_calls, AddBatch(w_start, EndIdx(w_start, Len(w_chunks))))
    /\ w_pc' = "raised"
    /\ UNCHANGED <<w_chunks, w_embeddings, w_ids, w_documents, w_metadatas, w_start, stored, write_frame>>

\* The range is exhausted.
WriteLoopEnds ==
    /\ w_pc = "loop"
    /\ w_start >= Len(w_chunks)
    /\ w_pc' = "done"
    /\ UNCHANGED <<w_chunks, w_embeddings, w_ids, w_documents, w_metadatas, w_start, stored, add_calls,
                   write_frame>>

\* The call is over; the chunks stay, for the next run of the pipeline.
WriteReturn ==
    /\ w_pc \in {"done", "raised"}
    /\ w_pc' = "idle"
    /\ w_embeddings' = <<>>
    /\ w_ids' = <<>>
    /\ w_documents' = <<>>
    /\ w_metadatas' = <<>>
    /\ w_start' = 0
    /\ add_calls' = <<>>
    /\ UNCHANGED <<w_chunks, stored, write_frame>>

NextWrite ==
    \/ WriteCall
    \/ WriteBatch
    \/ WriteBatchRaises
    \/ WriteLoopEnds
    \/ WriteReturn


\* ------------------------------------------------- properties of add_embeddings
RECURSIVE RecordsOfCalls(_)
\* The records of a list of add calls, in the order of the calls.
RecordsOfCalls(calls) ==
    IF calls = <<>> THEN <<>>
    ELSE RecordsOfCalls(SubSeq(calls, 1, Len(calls) - 1)) \o BatchRecords(calls[Len(calls)])

\* The record of position k comes from chunk k and embedding k.
RecordFromIndex(rec, k) ==
    /\ rec.id = w_chunks[k].id
    /\ rec.embedding = w_embeddings[k]
    /\ rec.document = w_chunks[k].content
    /\ DOMAIN rec.metadata = (DOMAIN w_chunks[k]) \ {"id", "content"}
    /\ \A f \in DOMAIN rec.metadata : rec.metadata[f] = w_chunks[k][f]

\* C25: when add_embeddings returns, the batches it passed to the store, put end
\* to end, hold one record per chunk, in the order of the chunks; no batch is
\* longer than 100 and only the last may be shorter; the id, the embedding, the
\* document and the metadata of record k all come from index k, and the
\* metadata holds the chunk's attributes other than id and content.
C25_EveryChunkWrittenOnceInOrder ==
    w_pc = "done" =>
        LET recs == RecordsOfCalls(add_calls)
        IN  /\ Len(recs) = Len(w_chunks)
            /\ \A k \in 1..Len(recs) : RecordFromIndex(recs[k], k)
            /\ \A b \in 1..Len(add_calls) :
                /\ Len(add_calls[b].ids) <= AddBatchSize
                /\ b < Len(add_calls) => Len(add_calls[b].ids) = AddBatchSize

\* add_embeddings has returned after three batches, with the model's vectors.
C25_Witness ==
    /\ w_pc = "done"
    /\ Len(add_calls) = 3
    /\ Len(w_chunks) = MaxWriteChunks
    /\ ~w_embeddings[Len(w_chunks)].zero

IdsOf(st) == [k \in 1..Len(st) |-> st[k].id]

MaxInstances == 2

\* Variant of the decision below: the collection is taken whatever the store holds.
InitChromaDbIgnoringStore(path_exists, coll_exists, store_answers) == "collection"

\* _init_chroma_db: self.collection is the collection when the path exists, the
\* client opens it and get_collection and count() answer; None otherwise.
InitChromaDb(path_exists, coll_exists, store_answers) ==
    IF path_exists /\ coll_exists /\ store_answers THEN "collection" ELSE "None"

\* The instance main.py creates when the backend process starts.
InitService ==
    /\ chroma_path_exists = (collection # "None")
    /\ collection_exists = (collection # "None")
    /\ missing_when_created = (collection = "None")
    /\ instance = 1

service_frame == <<chunk_vars, answer_vars, embed_vars, chat_vars, ui_vars, conc_vars, write_vars,
                  pipe_vars, chapters_vars, book_vars>>

\* populate_vector_db of the pipeline, run in its own process: ChromaDBManager
\* creates the store directory and the collection, add_embeddings fills it.
PipelinePopulates ==
    /\ ~(chroma_path_exists /\ collection_exists)
    /\ chroma_path_exists' = TRUE
    /\ collection_exists' = TRUE
    /\ UNCHANGED <<missing_when_created, instance, search_vars, service_frame>>

\* Only the directory is there: PersistentClient was opened on the path, or the
\* pipeline failed before create_collection.
PipelineCreatesPath ==
    /\ ~chroma_path_exists
    /\ chroma_path_exists' = TRUE
    /\ UNCHANGED <<collection_exists, missing_when_created, instance, search_vars, service_frame>>

\* The backend process is started again: rag_service = RAGService(...) makes a
\* new instance, whose _init_chroma_db reads the store as it is now.
ServiceCreated ==
    /\ s_pc = "idle"
    /\ instance < MaxInstances
    /\ instance' = instance + 1
    /\ \E store_answers \in BOOLEAN :
          collection' = InitChromaDb(chroma_path_exists, collection_exists, store_answers)
    /\ missing_when_created' = ~(chroma_path_exists /\ collection_exists)
    /\ UNCHANGED <<s_pc, query, n_results, min_similarity, results, processed_results, store_calls,
                   chroma_path_exists, collection_exists, service_frame>>

NextService ==
    \/ PipelinePopulates
    \/ PipelineCreatesPath
    \/ ServiceCreated
    \/ SearchCall
    \/ AvailableNoCollection
    \/ AvailableCount
    \/ AvailableCountRaises
    \/ QueryStore
    \/ QueryStoreRaises
    \/ SearchReturn

\* ---------------------------------------- properties of the construction
\* C27: an instance created while the store path or the collection was missing
\* has collection None for as long as it lives, whatever the pipeline does to
\* the store meanwhile: is_knowledge_base_available is False for it, its
\* searches issue no store call and return [], and no step of the instance
\* changes collection (only the creation of a new instance does).
C27_AvailabilityDecidedAtConstruction ==
    /\ [](missing_when_created =>
            /\ collection = "None"
            /\ \A count \in 0..MaxCount : ~IsAvailable(collection, count)
            /\ s_pc \notin {"query", "raised"}
            /\ store_calls = <<>>
            /\ s_pc = "done" => processed_results = <<>>)
    /\ [][collection' # collection => instance' # instance]_vars

\* The store was populated after the instance was created, and a search with a
\* query has returned.
C27_Witness ==
    /\ missing_when_created
    /\ chroma_path_exists
    /\ collection_exists
    /\ s_pc = "done"
    /\ query = <<"p", "s">>
    /\ processed_results = <<>>

\* ------------------------------------------------- run_complete_pipeline
MaxBooks == 2
MaxBookChunks == 2

\* test_queries of validate_pipeline has three entries
ValidationQueries == 3

\* The outcome of process_book for one book: this many chunks, or it raises.
ProcessRaises == 0 - 1
BookOutcomes == {ProcessRaises} \cup (0..MaxBookChunks)

\* chunk j of book b, as a dictionary (its content stands for the text)
BookChunk(b, j) == [id |-> <<b, j>>, content |-> <<b, j>>]

RECURSIVE AllChunks(_, _)
\* all_chunks of process_books: the chunks of each book that gave some, in order
AllChunks(outcomes, n) ==
    IF n = 0 THEN <<>>
    ELSE AllChunks(outcomes, n - 1) \o
         (IF outcomes[n] > 0 THEN [j \in 1..outcomes[n] |-> BookChunk(n, j)] ELSE <<>>)

\* processed_count
ProcessedCount(outcomes) == Cardinality({b \in DOMAIN outcomes : outcomes[b] > 0})

\* texts = [chunk['content'] for chunk in chunks]
ChunkTexts(cs) == [k \in 1..Len(cs) |-> cs[k].content]

\* The vectors one call of generate_embeddings_batch returns for the texts: one
\* per text, in order (call tells the calls apart).
BatchVectors(ts, call) == [k \in 1..Len(ts) |-> [of |-> ts[k], call |-> call]]

\* Variant of the test below: one answered query is enough.
AnyTestPassed(outcomes) == \E k \in DOMAIN outcomes : outcomes[k] = "results"

\* all_tests_passed: every test query answered with at least one document
AllTestsPassed(outcomes) == \A k \in DOMAIN outcomes : outcomes[k] = "results"

PyBool(b) == IF b THEN "True" ELSE "False"

InitPipeline ==
    /\ p_pc = "idle"
    /\ book_files = <<>>
    /\ p_chunks = <<>>
    /\ embedding_generator = "None"
    /\ chroma_manager = "None"
    /\ pipeline_state = [books_found |-> 0, books_processed |-> 0, total_chunks |-> 0,
                         embeddings_created |-> 0, vector_db_populated |-> FALSE, errors |-> 0]
    /\ gateway_sends = <<>>
    /\ counted_vectors = <<>>
    /\ p_embeddings = <<>>
    /\ written = <<>>
    /\ query_outcomes = <<>>
    /\ p_result = "None"

pipe_frame == <<chunk_vars, search_vars, answer_vars, embed_vars, chat_vars, ui_vars, conc_vars,
               write_vars, service_vars, chapters_vars, book_vars>>

\* run_complete_pipeline is called.
PipelineRun ==
    /\ p_pc = "idle"
    /\ p_pc' = "find"
    /\ UNCHANGED <<book_files, p_chunks, embedding_generator, chroma_manager, pipeline_state,
                   gateway_sends, counted_vectors, p_embeddings, written, query_outcomes, p_result,
                   pipe_frame>>

\* Step 1, find_books; with no book the pipeline returns False.
FindBooks ==
    /\ p_pc = "find"
    /\ \E n \in 0..MaxBooks :
          /\ book_files' = [b \in 1..n |-> b]
          /\ pipeline_state' = [pipeline_state EXCEPT !.books_found = n]
          /\ IF n = 0
             THEN p_pc' = "done" /\ p_result' = "False"
             ELSE p_pc' = "process" /\ UNCHANGED p_result
    /\ UNCHANGED <<p_chunks, embedding_generator, chroma_manager, gateway_sends, counted_vectors,
                   p_embeddings, written, query_outcomes, pipe_frame>>

\* Step 2, process_books: a book gives chunks, gives none, or process_book raises
\* (caught per book); with no chunk at all the pipeline returns False.
ProcessBooks ==
    /\ p_pc = "process"
    /\ \E outcomes \in [1..Len(book_files) -> BookOutcomes] :
          LET p_all_chunks == AllChunks(outcomes, Len(book_files))
              failed == Cardinality({b \in DOMAIN outcomes : outcomes[b] <= 0})
          IN  /\ p_chunks' = p_all_chunks
              /\ pipeline_state' = [pipeline_state EXCEPT
                                       !.books_processed = ProcessedCount(outcomes),
                                       !.total_chunks = Len(p_all_chunks),
                                       !.errors = @ + failed]
              /\ IF p_all_chunks = <<>>
                 THEN p_pc' = "done" /\ p_result' = "False"
                 ELSE p_pc' = "populate" /\ UNCHANGED p_result
    /\ UNCHANGED <<book_files, embedding_generator, chroma_manager, gateway_sends, counted_vectors,
                   p_embeddings, written, query_outcomes, pipe_frame>>

\* Step 2 fails while saving processed_chunks.json: the handler of
\* run_complete_pipeline returns False.
ProcessBooksRaises ==
    /\ p_pc = "process"
    /\ pipeline_state' = [pipeline_state EXCEPT !.errors = @ + 1]
    /\ p_pc' = "done"
    /\ p_result' = "False"
    /\ UNCHANGED <<book_files, p_chunks, embedding_generator, chroma_manager, gateway_sends,
                   counted_vectors, p_embeddings, written, query_outcomes, pipe_frame>>

\* populate_vector_db: the ChromaDBManager is created.
PopulateStarts ==
    /\ p_pc = "populate"
    /\ chroma_manager' = "manager"
    /\ p_pc' = IF embedding_generator = "None" THEN "create_embeddings" ELSE "embed"
    /\ UNCHANGED <<book_files, p_chunks, embedding_generator, pipeline_state, gateway_sends,
                   counted_vectors, p_embeddings, written, query_outcomes, p_result, pipe_frame>>

\* ChromaDBManager(...) raises: populate_vector_db returns False, and so does the pipeline.
PopulateStartRaises ==
    /\ p_pc = "populate"
    /\ pipeline_state' = [pipeline_state EXCEPT !.errors = @ + 1]
    /\ p_pc' = "done"
    /\ p_result' = "False"
    /\ UNCHANGED <<book_files, p_chunks, embedding_generator, chroma_manager, gateway_sends,
                   counted_vectors, p_embeddings, written, query_outcomes, pipe_frame>>

\* create_embeddings(chunks), called because self.embedding_generator is None: the
\* generator is made, every text is embedded, the vectors are counted; the
\* vectors are local to create_embeddings.
CreateEmbeddings ==
    /\ p_pc = "create_embeddings"
    /\ embedding_generator' = "generator"
    /\ gateway_sends' = gateway_sends \o ChunkTexts(p_chunks)
    /\ counted_vectors' = BatchVectors(ChunkTexts(p_chunks), 1)
    /\ pipeline_state' = [pipeline_state EXCEPT !.embeddings_created = Len(counted_vectors')]
    /\ p_pc' = "embed"
    /\ UNCHANGED <<book_files, p_chunks, chroma_manager, p_embeddings, written, query_outcomes,
                   p_result, pipe_frame>>

\* create_embeddings fails (the generator cannot be made): it returns False,
\* and so do populate_vector_db and the pipeline.
CreateEmbeddingsRaises ==
    /\ p_pc = "create_embeddings"
    /\ pipeline_state' = [pipeline_state EXCEPT !.errors = @ + 1]
    /\ p_pc' = "done"
    /\ p_result' = "False"
    /\ UNCHANGED <<book_files, p_chunks, embedding_generator, chroma_manager, gateway_sends,
                   counted_vectors, p_embeddings, written, query_outcomes, pipe_frame>>

\* populate_vector_db, after the test of self.embedding_generator:
\* embeddings = self.embedding_generator.generate_embeddings_batch(texts, batch_size=50)
PopulateEmbeds ==
    /\ p_pc = "embed"
    /\ gateway_sends' = gateway_sends \o ChunkTexts(p_chunks)
    /\ p_embeddings' = BatchVectors(ChunkTexts(p_chunks), 2)
    /\ p_pc' = "add"
    /\ UNCHANGED <<book_files, p_chunks, embedding_generator, chroma_manager, pipeline_state,
                   counted_vectors, written, query_outcomes, p_result, pipe_frame>>

\* add_embeddings(chunks, embeddings) returns, and vector_db_populated is set.
PopulateAdds ==
    /\ p_pc = "add"
    /\ written' = [k \in 1..Len(p_chunks) |-> [chunk |-> p_chunks[k], embedding |-> p_embeddings[k]]]
    /\ pipeline_state' = [pipeline_state EXCEPT !.vector_db_populated = TRUE]
    /\ p_pc' = "stats"
    /\ UNCHANGED <<book_files, p_chunks, embedding_generator, chroma_manager, gateway_sends,
                   counted_vectors, p_embeddings, query_outcomes, p_result, pipe_frame>>

\* add_embeddings raises on its batch: nothing is written, the pipeline returns False.
PopulateAddRaises ==
    /\ p_pc = "add"
    /\ pipeline_state' = [pipeline_state EXCEPT !.errors = @ + 1]
    /\ p_pc' = "done"
    /\ p_result' = "False"
    /\ UNCHANGED <<book_files, p_chunks, embedding_generator, chroma_manager, gateway_sends,
                   counted_vectors, p_embeddings, written, query_outcomes, pipe_frame>>

\* get_collection_stats answers: populate_vector_db returns True.
PopulateStats ==
    /\ p_pc = "stats"
    /\ p_pc' = "validate"
    /\ UNCHANGED <<book_files, p_chunks, embedding_generator, chroma_manager, pipeline_state,
                   gateway_sends, counted_vectors, p_embeddings, written, query_outcomes, p_result,
                   pipe_frame>>

\* get_collection_stats raises: populate_vector_db returns False with
\* vector_db_populated set, and the pipeline returns False.
PopulateStatsRaises ==
    /\ p_pc = "stats"
    /\ pipeline_state' = [pipeline_state EXCEPT !.errors = @ + 1]
    /\ p_pc' = "done"
    /\ p_result' = "False"
    /\ UNCHANGED <<book_files, p_chunks, embedding_generator, chroma_manager, gateway_sends,
                   counted_vectors, p_embeddings, written, query_outcomes, pipe_frame>>

\* Step 4, validate_pipeline: each test query gives documents, gives none, or raises.
ValidatePipeline ==
    /\ p_pc = "validate"
    /\ query_outcomes' \in [1..ValidationQueries -> {"results", "empty", "raises"}]
    /\ p_pc' = "report"
    /\ UNCHANGED <<book_files, p_chunks, embedding_generator, chroma_manager, pipeline_state,
                   gateway_sends, counted_vectors, p_embeddings, written, p_result, pipe_frame>>

\* generate_report, then the return of validation_passed.
PipelineReports ==
    /\ p_pc = "report"
    /\ p_result' = PyBool(AllTestsPassed(query_outcomes))
    /\ p_pc' = "done"
    /\ UNCHANGED <<book_files, p_chunks, embedding_generator, chroma_manager, pipeline_state,
                   gateway_sends, counted_vectors, p_embeddings, written, query_outcomes, pipe_frame>>

\* generate_report raises (the report file cannot be written): the handler calls
\* it again, and returns False or lets the second failure out.
PipelineReportRaises ==
    /\ p_pc = "report"
    /\ pipeline_state' = [pipeline_state EXCEPT !.errors = @ + 1]
    /\ p_result' \in {"False", "raised"}
    /\ p_pc' = "done"
    /\ UNCHANGED <<book_files, p_chunks, embedding_generator, chroma_manager, gateway_sends,
                   counted_vectors, p_embeddings, written, query_outcomes, pipe_frame>>

NextPipeline ==
    \/ PipelineRun
    \/ FindBooks
    \/ ProcessBooks
    \/ ProcessBooksRaises
    \/ PopulateStarts
    \/ PopulateStartRaises
    \/ CreateEmbeddings
    \/ CreateEmbeddingsRaises
    \/ PopulateEmbeds
    \/ PopulateAdds
    \/ PopulateAddRaises
    \/ PopulateStats
    \/ PopulateStatsRaises
    \/ ValidatePipeline
    \/ PipelineReports
    \/ PipelineReportRaises

\* ------------------------------------- properties of run_complete_pipeline
\* How many times the text t was sent to the embedding gateway.
TimesSent(t) == Cardinality({k \in 1..Len(gateway_sends) : gateway_sends[k] = t})

\* C28: once the pipeline has written the chunks, each chunk's text has been sent
\* to the embedding gateway exactly once, and the vectors written are the
\* vectors that create_embeddings counted in embeddings_created.
C28_EmbeddedOnceAndCountedWritten ==
    written # <<>> =>
        /\ \A k \in 1..Len(p_chunks) : TimesSent(p_chunks[k].content) = 1
        /\ [k \in 1..Len(written) |-> written[k].embedding] = counted_vectors

\* C29: the pipeline returns True only with a book found, a chunk produced,
\* vector_db_populated set and every test query of the validation answered;
\* vector_db_populated is set only when add_embeddings has written every
\* chunk; and the validation has run only on a store so written.
EveryChunkWritten ==
    /\ Len(written) = Len(p_chunks)
    /\ \A k \in 1..Len(p_chunks) : written[k].chunk = p_chunks[k]

C29_TrueOnlyAfterEveryStep ==
    /\ p_result = "True" =>
          /\ Len(book_files) >= 1
          /\ pipeline_state.books_found >= 1
          /\ Len(p_chunks) >= 1
          /\ pipeline_state.vector_db_populated
          /\ Len(query_outcomes) = ValidationQueries
          /\ \A k \in 1..Len(query_outcomes) : query_outcomes[k] = "results"
    /\ pipeline_state.vector_db_populated => EveryChunkWritten
    /\ (p_pc \in {"validate", "report"} \/ query_outcomes # <<>>) =>
          pipeline_state.vector_db_populated /\ EveryChunkWritten

\* The pipeline has returned True for two books.
C29_Witness ==
    /\ p_pc = "done"
    /\ p_result = "True"
    /\ Len(book_files) = 2
    /\ Len(p_chunks) >= 3

\* ------------------------------------------------- extract_chapters
MaxParts == 3

\* A text is a sequence of tokens. "Chapter" is the word Chapter (or CHAPTER),
\* "bs" a backslash, "bs_s" a backslash followed by the letter s, "I" a Roman
\* numeral letter, "n" the letter n, " " a space, and "A", "a", "x" other letters.
\* The patterns of data_processing.py are raw strings with doubled backslashes:
\* r'\\s+' is a backslash followed by one or more letters s, r'[^\\n]' is any
\* character but a backslash and the letter n.
Backslashes == {"bs", "bs_s"}
TitleChars == {"Chapter", "I", "A", "a", "x", " "}

\* A heading the pattern of extract_chapters matches, followed by its title.
Heading(title) == <<"Chapter", "bs_s", "I", "bs", "bs">> \o title

\* The pieces the texts are made of: plain text, the letter n, a heading as a
\* book prints it (not matched), and two matched headings whose titles differ in case.
Parts == {<<"x">>, <<"n">>, <<"Chapter", " ", "I">>, Heading(<<"A">>), Heading(<<"a">>)}

RECURSIVE JoinPages(_)
\* " ".join(pages)
JoinPages(pages) ==
    IF pages = <<>> THEN <<>>
    ELSE IF Len(pages) = 1 THEN pages[1]
    ELSE pages[1] \o <<" ">> \o JoinPages(Tail(pages))

PageLists == SeqsUpTo(Parts, MaxParts)
ChapterInputs == {JoinPages(pages) : pages \in PageLists}

RECURSIVE RunEnd(_, _, _)
\* The position after the longest run of tokens of S that starts at p.
RunEnd(t, p, S) == IF p <= Len(t) /\ t[p] \in S THEN RunEnd(t, p + 1, S) ELSE p

NoMatch == [start |-> 0, end |-> 0, num |-> <<>>, title |-> <<>>]

\* chapter_pattern at position p:
\*   (Chapter|CHAPTER)  \\s+  (\\d+|[IVX]+)  \\s*  [:-]?  \\s*  ([^\\n]*)
\* (no token holds a backslash followed by d, a colon or a hyphen)
MatchAt(t, p) ==
    LET num_end == RunEnd(t, p + 2, {"I"})
        title_end == RunEnd(t, num_end + 2, TitleChars)
    IN  IF /\ p + 1 <= Len(t)
           /\ t[p] = "Chapter"
           /\ t[p + 1] = "bs_s"
           /\ num_end > p + 2
           /\ num_end + 1 <= Len(t)
           /\ t[num_end] \in Backslashes
           /\ t[num_end + 1] \in Backslashes
        THEN [start |-> p, end |-> title_end, num |-> SubSeq(t, p + 2, num_end - 1),
              title |-> SubSeq(t, num_end + 2, title_end - 1)]
        ELSE NoMatch

RECURSIVE FindIter(_, _)
\* list(re.finditer(chapter_pattern, text)), from position p on
FindIter(t, p) ==
    IF p > Len(t) THEN <<>>
    ELSE LET m == MatchAt(t, p)
         IN  IF m.start # 0 THEN <<m>> \o FindIter(t, m.end) ELSE FindIter(t, p + 1)

FullText == <<"Full", " ", "Text">>

\* chapter_title = match.group(3).strip() or f"Chapter {chapter_num}"
ChapterTitle(m) ==
    IF StripStr(m.title) # <<>> THEN StripStr(m.title) ELSE <<"Chapter", " ">> \o m.num

\* start_pos = match.start()
ChapterStart(ms, k) == ms[k].start

\* extract_chapters(text)
ExtractChapters(t) ==
    LET chapter_matches == FindIter(t, 1)
    IN  IF chapter_matches = <<>>
        THEN <<[title |-> FullText, text |-> t]>>
        ELSE [k \in 1..Len(chapter_matches) |->
                [title |-> ChapterTitle(chapter_matches[k]),
                 text |-> SubSeq(t, ChapterStart(chapter_matches, k),
                                 IF k + 1 <= Len(chapter_matches)
                                 THEN chapter_matches[k + 1].start - 1
                                 ELSE Len(t))]]

InitChapters ==
    /\ x_pc = "idle"
    /\ x_text = <<>>
    /\ x_chapters = <<>>

chapters_frame == <<chunk_vars, search_vars, answer_vars, embed_vars, chat_vars, ui_vars, conc_vars,
                   write_vars, service_vars, pipe_vars, book_vars>>

\* A call of extract_chapters.
ExtractCall ==
    /\ x_pc = "idle"
    /\ x_text' \in ChapterInputs
    /\ x_chapters' = <<>>
    /\ x_pc' = "called"
    /\ UNCHANGED chapters_frame

\* The call returns its list.
ExtractReturn ==
    /\ x_pc = "called"
    /\ x_chapters' = ExtractChapters(x_text)
    /\ x_pc' = "done"
    /\ UNCHANGED <<x_text, chapters_frame>>

\* The caller has taken the list.
ExtractDone ==
    /\ x_pc = "done"
    /\ x_pc' = "idle"
    /\ x_text' = <<>>
    /\ x_chapters' = <<>>
    /\ UNCHANGED chapters_frame

NextChapters ==
    \/ ExtractCall
    \/ ExtractReturn
    \/ ExtractDone

\* ------------------------------------------ properties of extract_chapters
RECURSIVE ConcatTexts(_)
ConcatTexts(chs) == IF chs = <<>> THEN <<>> ELSE chs[1].text \o ConcatTexts(Tail(chs))

\* C30: the chapter texts extract_chapters returns, put end to end in the order
\* returned, are the whole input text (the text before the first heading
\* included); with no heading the one chapter "Full Text" holds the whole text.
C30_ChaptersCoverText ==
    x_pc = "done" =>
        /\ ConcatTexts(x_chapters) = x_text
        /\ FindIter(x_text, 1) = <<>> => x_chapters = <<[title |-> FullText, text |-> x_text]>>

\* ------------------------------------------------- process_book
MaxBookSentences == 2
MaxBookChunkSize == 1

RECURSIVE SubBackslashN(_)
\* re.sub(r'\\n+', ' ', text): a backslash followed by letters n becomes a space
SubBackslashN(t) ==
    IF t = <<>> THEN <<>>
    ELSE IF Len(t) >= 2 /\ t[1] = "bs" /\ t[2] = "n"
         THEN <<" ">> \o SubBackslashN(SubSeq(t, RunEnd(t, 2, {"n"}), Len(t)))
         ELSE <<t[1]>> \o SubBackslashN(Tail(t))

\* re.sub(r'\\s+', ' ', text): a backslash followed by letters s becomes a space
SubBackslashS(t) == [k \in 1..Len(t) |-> IF t[k] = "bs_s" THEN " " ELSE t[k]]

\* Variant of clean_text below: the text is returned as it came.
CleanTextUntouched(t) == t

\* clean_text(text). The other substitutions (lines 122, 125, 131, 132) need a
\* backslash followed by t, b or d, which no token holds: they change nothing.
CleanText(t) == StripStr(SubBackslashS(SubBackslashN(t)))

\* book_title = file_path.stem
BookStem == <<"B", "k">>

\* sent_tokenize(text) gives no sentence for a blank text and at least one
\* otherwise; the sentences stand for one-word sentences.
SentTokenize(t) ==
    IF StripStr(t) = <<>> THEN {<<>>}
    ELSE {[k \in 1..n |-> Sentence(1)] : n \in 1..MaxBookSentences}

InitBook ==
    /\ b_pc = "idle"
    /\ text_pages = <<>>
    /\ full_text = <<>>
    /\ b_chapters = <<>>
    /\ b_pos = 1
    /\ all_chunks = <<>>

book_frame == <<search_vars, answer_vars, embed_vars, chat_vars, ui_vars, conc_vars,
               write_vars, service_vars, pipe_vars, chapters_vars>>

\* A call of process_book on a book file: the pages are extracted.
BookCall ==
    /\ b_pc = "idle"
    /\ c_pc = "idle"
    /\ text_pages' \in PageLists
    /\ chunk_size' \in 1..MaxBookChunkSize
    /\ full_text' = <<>>
    /\ b_chapters' = <<>>
    /\ b_pos' = 1
    /\ all_chunks' = <<>>
    /\ b_pc' = "pages"
    /\ UNCHANGED <<c_pc, sentences, book_title, chapter, pos, current_chunk, current_word_count,
                   chunk_index, chunks, book_frame>>

\* if not text_pages: return []
BookNoText ==
    /\ b_pc = "pages"
    /\ text_pages = <<>>
    /\ b_pc' = "done"
    /\ UNCHANGED <<text_pages, full_text, b_chapters, b_pos, all_chunks, chunk_vars, book_frame>>

\* The pages are joined and cleaned, and the chapters extracted.
BookChapters ==
    /\ b_pc = "pages"
    /\ text_pages # <<>>
    /\ full_text' = CleanText(JoinPages(text_pages))
    /\ b_chapters' = ExtractChapters(full_text')
    /\ b_pos' = 1
    /\ b_pc' = "chapters"
    /\ UNCHANGED <<text_pages, all_chunks, chunk_vars, book_frame>>

\* One pass of "for chapter_name, chapter_text in chapters": create_chunks is called.
BookCreatesChunks ==
    /\ b_pc = "chapters"
    /\ b_pos <= Len(b_chapters)
    /\ c_pc = "idle"
    /\ sentences' \in SentTokenize(b_chapters[b_pos].text)
    /\ book_title' = BookStem
    /\ chapter' = b_chapters[b_pos].title
    /\ chunks' = <<>>
    /\ current_chunk' = <<>>
    /\ current_word_count' = 0
    /\ chunk_index' = 0
    /\ pos' = 1
    /\ c_pc' = "loop"
    /\ b_pc' = "chunking"
    /\ UNCHANGED <<chunk_size, text_pages, full_text, b_chapters, b_pos, all_chunks, book_frame>>

\* create_chunks has returned: all_chunks.extend(chunks)
BookExtends ==
    /\ b_pc = "chunking"
    /\ c_pc = "done"
    /\ all_chunks' = all_chunks \o chunks
    /\ b_pos' = b_pos + 1
    /\ b_pc' = "chapters"
    /\ c_pc' = "idle"
    /\ sentences' = <<>>
    /\ book_title' = <<>>
    /\ chapter' = <<>>
    /\ pos' = 1
    /\ current_chunk' = <<>>
    /\ current_word_count' = 0
    /\ chunk_index' = 0
    /\ chunks' = <<>>
    /\ UNCHANGED <<chunk_size, text_pages, full_text, b_chapters, book_frame>>

\* The loop over the chapters is over: return all_chunks
BookReturns ==
    /\ b_pc = "chapters"
    /\ b_pos > Len(b_chapters)
    /\ b_pc' = "done"
    /\ UNCHANGED <<text_pages, full_text, b_chapters, b_pos, all_chunks, chunk_vars, book_frame>>

\* The caller has taken the chunks.
BookDone ==
    /\ b_pc = "done"
    /\ b_pc' = "idle"
    /\ text_pages' = <<>>
    /\ full_text' = <<>>
    /\ b_chapters' = <<>>
    /\ b_pos' = 1
    /\ all_chunks' = <<>>
    /\ chunk_size' = 1
    /\ UNCHANGED <<c_pc, sentences, book_title, chapter, pos, current_chunk, current_word_count,
                   chunk_index, chunks, book_frame>>

NextBook ==
    \/ BookCall
    \/ BookNoText
    \/ BookChapters
    \/ BookCreatesChunks
    \/ CloseChunk
    \/ AppendSentence
    \/ FinalChunk
    \/ BookExtends
    \/ BookReturns
    \/ BookDone

Init == InitChunk /\ InitSearch /\ InitAnswer /\ InitEmbed /\ InitChat /\ InitUi /\ InitConc
        /\ InitWrite /\ InitService /\ InitPipeline
        /\ InitChapters /\ InitBook

SpecChunk == Init /\ [][NextChunk]_vars
SpecSearch == Init /\ [][NextSearch]_vars
SpecAnswer == Init /\ [][NextAnswer]_vars
SpecEmbed == Init /\ [][NextEmbed]_vars
SpecChat == Init /\ [][NextChat]_vars
SpecConc == Init /\ [][NextConc]_vars
SpecWrite == Init /\ [][NextWrite]_vars
SpecService == Init /\ [][NextService]_vars
SpecPipeline == Init /\ [][NextPipeline]_vars
SpecChapters == Init /\ [][NextChapters]_vars
SpecBook == Init /\ [][NextBook]_vars

====
